---- MODULE Spec2Model ----
(***************************************************************************)
(* Verification model of the Confluence backup tool:                       *)
(*   - treeBuilder.ts   buildTree, getTreeStats (page forest)              *)
(*   - fileUtils.ts     safeFilename (filename sanitizer)                  *)
(*   - parser.ts        confluenceCodeMacroToFence, convertPages,          *)
(*                      buildPageOutputPath, convertViewFileMacro          *)
(*   - routes           backup, download, page cache and delete handlers   *)
(*   - client store     selectSpace, refreshCurrentSpace                   *)
(* Each component has its own specification (SpecTree, SpecSan, SpecFence, *)
(* SpecJob, SpecForest, SpecRoute, SpecCache, SpecViewFile, SpecOverlap,   *)
(* SpecStore); the variables of the other components stay at their idle    *)
(* values.                                                                 *)
(***************************************************************************)
EXTENDS Integers, Sequences, FiniteSets, TLC

VARIABLES
    \* ---- treeBuilder.ts: buildTree ----
    pages,        \* input Page[] (sequence of page records)
    tpc,          \* position inside buildTree
    pageMap,      \* keys of the id -> TreeNode Map, in insertion order
    rootNodes,    \* rootNodes array (ids)
    children,     \* node.children arrays, by node id (ids)
    ti,           \* index of the Map iteration of step 2
    totalPages,   \* Tree.totalPages
    \* ---- fileUtils.ts: safeFilename ----
    sArg,         \* the argument s: [defined, chars]; defined = FALSE is null/undefined
    result,       \* the local variable result
    sanOut,       \* the returned string
    spc,          \* position inside safeFilename
    sCall,        \* 1: first application, 2: re-application to its own output
    out1,         \* what the first application returned
    \* ---- parser.ts: confluenceCodeMacroToFence ----
    htmlContent,       \* the argument: the code macros of the body, in order
    codeBlocks,        \* codeBlocks array (the fenced blocks)
    withPlaceholders,  \* the body with every macro replaced by its <span>
    markdown,          \* the local variable markdown
    fpc,               \* position inside confluenceCodeMacroToFence
    fi,                \* index of the macro being replaced / block being restored
    \* ---- parser.ts: convertPages ----
    jobPages,               \* the argument pages: [id, hasBody]
    formats,                \* the argument formats: [html, markdown, pdf]
    jpc,                    \* position inside convertPages
    pidx,                   \* index of the page of the for loop
    pagesProcessed, htmlCount, mdCount, pdfCount,
    attachmentsDownloaded, attachmentsFailed,
    browser,                \* "null", "open" (launched) or "closed"
    launches,               \* calls of puppeteer.launch
    closes,                 \* calls of browser.close
    surfaces,               \* pages whose browserPage is open
    pending,                \* how the try block was left: "return" or "throw"
    status,                 \* "running", "returned" (resolved) or "threw" (rejected)
    thrown,                 \* the exceptions raised so far: [page, step]
    written,                \* the files written so far: [page, file]
    listFailures,           \* attachment listings that failed so far
    itemFailures,           \* attachments without link or whose download failed so far
    itemDownloads,          \* attachments downloaded so far
    \* ---- treeBuilder.ts: getTreeStats; parser.ts: buildPageOutputPath ----
    lpc,          \* position: the statistics, then the output path of each page
    stats,        \* what getTreeStats returned
    px,           \* index of the page whose output path is built
    ancestors,    \* getAncestorChain: the local array ancestors
    currentId,    \* getAncestorChain: the local variable currentId
    pagePath,      \* buildPageOutputPath: the folders under outputRoot
    \* ---- routes/backup.ts: POST /api/backup and POST /api/backup/download ----
    req,            \* the request body
    rpc,            \* position inside the handler
    listings,       \* calls of client.getPagesFromSpace
    dirsMade,       \* directories created by the handler
    sessionsMade,   \* browsers launched by the conversion
    tempDir,        \* the temporary directory of a download: "none", "exists", "removed"
    zipFile,        \* the ZIP file of a download: "none", "exists", "removed"
    response,        \* the HTTP status sent, 0 before any is sent
    \* ---- routes/spaces.ts: pagesCache; routes/pages.ts: the delete handlers ----
    now,            \* Date.now(), in minutes
    upstream,       \* the pages that exist in Confluence
    pagesCache,     \* pagesCache: one entry per Space id
    gets,           \* the GET /:id/pages or GET /:id/tree request in progress
    bulk,           \* the POST /bulk-delete request in progress
    deleted,        \* the pages the server has deleted
    lastResponse,    \* the last response sent by a GET handler
    \* ---- parser.ts: convertViewFileMacro in processConfluenceHtml / ...ForPdf ----
    vfMode,         \* "html": processConfluenceHtml, "pdf": processConfluenceHtmlForPdf
    vfPath,         \* the attachments path the caller passes
    processed,      \* the local variable processed: the elements of the body
    vi,             \* index of the element the replace callback is at
    vpc,             \* position inside the function
    \* ---- routes/backup.ts: overlapping POST /api/backup/download requests ----
    downloads,      \* the requests in progress: body, position, tempDir, open files
    msNow,          \* Date.now(), in milliseconds
    tmpDirs,        \* the directories under os.tmpdir()/confluence-backup
    zipPaths,       \* the ZIP files under os.tmpdir(): the inode each name points to
    inodes,          \* the data of each ZIP inode: whose export, whose writes
    \* ---- client/store/useStore.ts: selectSpace and refreshCurrentSpace ----
    selectedSpace,      \* the id of selectedSpace, "null" when none is selected
    spaceDataLoading,   \* spaceDataLoading
    cachedSpaces,       \* the ids that have an entry in pagesCache and treeCache
    inFlight,           \* per Space id, the Promise.all fetches not yet settled
    errorMessage        \* error: "null" or the message

treeVars == <<pages, tpc, pageMap, rootNodes, children, ti, totalPages>>
sanVars == <<sArg, result, sanOut, spc, sCall, out1>>
fenceVars == <<htmlContent, codeBlocks, withPlaceholders, markdown, fpc, fi>>

counters == <<pagesProcessed, htmlCount, mdCount, pdfCount,
              attachmentsDownloaded, attachmentsFailed>>
session == <<browser, launches, closes, surfaces>>
attachLog == <<listFailures, itemFailures, itemDownloads>>
jobVars == <<jobPages, formats, jpc, pidx, counters, session, pending, status,
             thrown, written, attachLog>>

forestVars == <<lpc, stats, px, ancestors, currentId, pagePath>>

routeVars == <<req, rpc, listings, dirsMade, sessionsMade, tempDir, zipFile, response>>

cacheVars == <<now, upstream, pagesCache, gets, bulk, deleted, lastResponse>>

viewFileVars == <<vfMode, vfPath, processed, vi, vpc>>

overlapVars == <<downloads, msNow, tmpDirs, zipPaths, inodes>>

storeVars == <<selectedSpace, spaceDataLoading, cachedSpaces, inFlight, errorMessage>>

vars == <<treeVars, sanVars, fenceVars, jobVars, forestVars, routeVars, cacheVars, viewFileVars, overlapVars, storeVars>>

\* what the actions of one component leave alone
notTree == <<sanVars, fenceVars, jobVars, forestVars, routeVars, cacheVars, viewFileVars, overlapVars, storeVars>>
notSan == <<treeVars, fenceVars, jobVars, forestVars, routeVars, cacheVars, viewFileVars, overlapVars, storeVars>>
notFence == <<treeVars, sanVars, jobVars, forestVars, routeVars, cacheVars, viewFileVars, overlapVars, storeVars>>
notJob == <<treeVars, sanVars, fenceVars, forestVars, routeVars, cacheVars, viewFileVars, overlapVars, storeVars>>
notForest == <<treeVars, sanVars, fenceVars, jobVars, routeVars, cacheVars, viewFileVars, overlapVars, storeVars>>
notRoute == <<treeVars, sanVars, fenceVars, jobVars, forestVars, cacheVars, viewFileVars, overlapVars, storeVars>>
notCache == <<treeVars, sanVars, fenceVars, jobVars, forestVars, routeVars, viewFileVars, overlapVars, storeVars>>
notViewFile == <<treeVars, sanVars, fenceVars, jobVars, forestVars, routeVars, cacheVars, overlapVars, storeVars>>
notOverlap == <<treeVars, sanVars, fenceVars, jobVars, forestVars, routeVars, cacheVars, viewFileVars, storeVars>>
notStore == <<treeVars, sanVars, fenceVars, jobVars, forestVars, routeVars, cacheVars, viewFileVars, overlapVars>>

----------------------------------------------------------------------------
(* Generic helpers *)

Range(s) == {s[i] : i \in 1..Len(s)}

Min2(a, b) == IF a <= b THEN a ELSE b

RECURSIVE SumSeq(_)
SumSeq(s) == IF s = <<>> THEN 0 ELSE Head(s) + SumSeq(Tail(s))

----------------------------------------------------------------------------
(* treeBuilder.ts *)

MaxPages == 3

Null == "<null>"
MissingId == "missing"
IdList == <<"1", "2", "3", "4", "5">>
Titles == {"a", "B"}
ParentTypes == {"space", "page"}

PageIds(n) == {IdList[i] : i \in 1..n}

\* The page lists of length n: distinct non-empty ids (the id of the i-th page
\* is IdList[i]); parentId is null, another page, the page itself, or absent.
PageLists(n) ==
    {[i \in 1..n |-> [id |-> IdList[i], title |-> f[i].title,
                      parentId |-> f[i].parentId, parentType |-> f[i].parentType]] :
        f \in [1..n -> [title : Titles,
                        parentId : PageIds(n) \cup {Null, MissingId},
                        parentType : ParentTypes]]}

PageOf(ps, id) == CHOOSE p \in Range(ps) : p.id = id

\* String.prototype.localeCompare on the titles: lower case sorts before upper
\* case of a later letter, unlike code-unit order ("B" < "a").
CollationKey(t) == CASE t = "a" -> 1 [] t = "B" -> 2 [] OTHER -> 0

LocaleCompare(a, b) ==
    IF CollationKey(a) < CollationKey(b) THEN -1
    ELSE IF CollationKey(a) > CollationKey(b) THEN 1 ELSE 0

TitleOf(ps, id) == PageOf(ps, id).title

RECURSIVE InsertByTitle(_, _, _)
\* insert id into the sorted list after every element that does not compare
\* greater (stable)
InsertByTitle(ps, sorted, id) ==
    IF sorted = <<>> THEN <<id>>
    ELSE IF LocaleCompare(TitleOf(ps, Head(sorted)), TitleOf(ps, id)) <= 0
         THEN <<Head(sorted)>> \o InsertByTitle(ps, Tail(sorted), id)
         ELSE <<id>> \o sorted

RECURSIVE SortAcc(_, _, _)
SortAcc(ps, acc, rest) ==
    IF rest = <<>> THEN acc
    ELSE SortAcc(ps, InsertByTitle(ps, acc, Head(rest)), Tail(rest))

\* nodes.sort((a, b) => a.title.localeCompare(b.title)): a stable sort
SortByTitle(ps, nodes) == SortAcc(ps, <<>>, nodes)

RECURSIVE ReachFrom(_, _, _)
\* the nodes reachable from the frontier through the children arrays
ReachFrom(ch, seen, frontier) ==
    IF frontier \subseteq seen THEN seen
    ELSE ReachFrom(ch, seen \cup frontier,
                   UNION {Range(ch[x]) : x \in frontier} \ (seen \cup frontier))

\* the nodes sortChildren visits: the roots and all their descendants
Visited(roots, ch) == ReachFrom(ch, {}, Range(roots))

SortChildrenRootsOnly(ps, roots, ch) == ch

\* sortChildren applied to every root: sorts the children array of every node
\* the recursion visits
SortChildren(ps, roots, ch) ==
    [id \in DOMAIN ch |->
        IF id \in Visited(roots, ch) THEN SortByTitle(ps, ch[id]) ELSE ch[id]]

IsRootNode(node) == node.parentType = "space" \/ node.parentId = Null

ParentResolves(node, map) ==
    node.parentId # Null /\ node.parentId # "" /\ node.parentId \in Range(map)

PushOrphanDropped(roots, id) == roots

\* rootNodes.push(node) of the orphan fallback
PushOrphan(roots, id) == Append(roots, id)

PushChildAlsoRoot(roots, id) == Append(roots, id)

\* the rootNodes array when a node is linked under its parent (untouched)
RootsAfterChild(roots, id) == roots

\* Step 1: one Map entry per page with a truthy id, children: []
BuildPageMap ==
    /\ tpc = "map"
    /\ pageMap' = [i \in 1..Len(pages) |-> pages[i].id]
    /\ children' = [id \in Range(pageMap') |-> <<>>]
    /\ ti' = 1
    /\ tpc' = "link"
    /\ UNCHANGED <<pages, rootNodes, totalPages>>
    /\ UNCHANGED notTree

CurNode == PageOf(pages, pageMap[ti])

\* Step 2, first branch: parentType === 'space' || parentId === null
LinkRoot ==
    /\ tpc = "link" /\ ti <= Len(pageMap)
    /\ IsRootNode(CurNode)
    /\ rootNodes' = Append(rootNodes, CurNode.id)
    /\ ti' = ti + 1
    /\ UNCHANGED <<pages, tpc, pageMap, children, totalPages>>
    /\ UNCHANGED notTree

\* Step 2, second branch: parentId && pageMap.has(parentId)
LinkChild ==
    /\ tpc = "link" /\ ti <= Len(pageMap)
    /\ ~IsRootNode(CurNode)
    /\ ParentResolves(CurNode, pageMap)
    /\ children' = [children EXCEPT ![CurNode.parentId] = Append(@, CurNode.id)]
    /\ rootNodes' = RootsAfterChild(rootNodes, CurNode.id)
    /\ ti' = ti + 1
    /\ UNCHANGED <<pages, tpc, pageMap, totalPages>>
    /\ UNCHANGED notTree

\* Step 2, third branch: the parent is not in the Map (orphan) -> root
LinkOrphan ==
    /\ tpc = "link" /\ ti <= Len(pageMap)
    /\ ~IsRootNode(CurNode)
    /\ ~ParentResolves(CurNode, pageMap)
    /\ rootNodes' = PushOrphan(rootNodes, CurNode.id)
    /\ ti' = ti + 1
    /\ UNCHANGED <<pages, tpc, pageMap, children, totalPages>>
    /\ UNCHANGED notTree

\* Step 3 and the return: sort the roots, sortChildren on every root,
\* totalPages: pages.length
SortTree ==
    /\ tpc = "link" /\ ti > Len(pageMap)
    /\ rootNodes' = SortByTitle(pages, rootNodes)
    /\ children' = SortChildren(pages, rootNodes, children)
    /\ totalPages' = Len(pages)
    /\ tpc' = "done"
    /\ UNCHANGED <<pages, pageMap, ti>>
    /\ UNCHANGED notTree

TreeNext == BuildPageMap \/ LinkRoot \/ LinkChild \/ LinkOrphan \/ SortTree

----------------------------------------------------------------------------
(* fileUtils.ts: safeFilename.  Strings are sequences of one-character strings. *)

MaxNameLen == 120
MaxSuffix == 3
MaxShortPad == 1

\* [\\/:*?"<>|] of the regular expression of step 2
ForbiddenChars == {"\\", "/", ":", "*", "?", "\"", "<", ">", "|"}
\* \s of the regular expression, and what trim() removes
WhitespaceChars == {" ", "\t", "\n", "\r"}

Untitled == <<"u", "n", "t", "i", "t", "l", "e", "d">>

SanAlphabet == {"a", "_", " ", "/"}

StringsUpTo(n) == UNION {[1..k -> SanAlphabet] : k \in 0..n}

Pad(k) == [i \in 1..k |-> "a"]

\* Inputs: null/undefined, short strings, and strings around the length limit
\* (a run of letters followed by a short arbitrary suffix).
Str(cs) == [defined |-> TRUE, chars |-> cs]
Undefined == [defined |-> FALSE, chars |-> <<>>]

SanInputs ==
    {Undefined} \cup
    {Str(Pad(k) \o suf) :
        k \in (0..MaxShortPad) \cup ((MaxNameLen - MaxSuffix)..(MaxNameLen + 1)),
        suf \in StringsUpTo(MaxSuffix)}

Indices(s) == [k \in 1..Len(s) |-> k]

\* (s || '')
OrEmpty(s) == IF ~s.defined THEN <<>> ELSE s.chars

\* String.prototype.trim
Trim(s) ==
    LET keep == {k \in 1..Len(s) : s[k] \notin WhitespaceChars}
    IN  IF keep = {} THEN <<>>
        ELSE SubSeq(s, CHOOSE k \in keep : \A m \in keep : k <= m,
                       CHOOSE k \in keep : \A m \in keep : k >= m)

\* s.replace(/[C]+/g, '_'): every maximal run of characters of C becomes one '_'
ReplaceRuns(s, C) ==
    LET First(k) == s[k] \notin C \/ k = 1 \/ s[k - 1] \notin C
        kept == SelectSeq(Indices(s), First)
    IN  [k \in 1..Len(kept) |-> IF s[kept[k]] \in C THEN "_" ELSE s[kept[k]]]

\* result.replace(/^_|_$/g, ''): one leading and one trailing underscore
StripEnds(s) ==
    LET a == IF s # <<>> /\ s[1] = "_" THEN Tail(s) ELSE s
    IN  IF a # <<>> /\ a[Len(a)] = "_" THEN SubSeq(a, 1, Len(a) - 1) ELSE a

SliceNoLimit(s) == s

\* result.slice(0, 120)
Slice(s) == SubSeq(s, 1, Min2(Len(s), MaxNameLen))

\* x || 'untitled'
OrUntitled(s) == IF s = <<>> THEN Untitled ELSE s

\* the whole function, as the steps below compute it
safeFilename(s) ==
    OrUntitled(Slice(StripEnds(ReplaceRuns(
        ReplaceRuns(Trim(OrEmpty(s)), ForbiddenChars \cup WhitespaceChars), {"_"}))))

\* Step 1: let result = (s || '').trim()
SanTrim ==
    /\ spc = "trim"
    /\ result' = Trim(OrEmpty(sArg))
    /\ spc' = "replace"
    /\ UNCHANGED <<sArg, sanOut, sCall, out1>>
    /\ UNCHANGED notSan

\* Step 2: result.replace(/[\\/:*?"<>|\s]+/g, '_')
SanReplace ==
    /\ spc = "replace"
    /\ result' = ReplaceRuns(result, ForbiddenChars \cup WhitespaceChars)
    /\ spc' = "collapse"
    /\ UNCHANGED <<sArg, sanOut, sCall, out1>>
    /\ UNCHANGED notSan

\* Step 3: result.replace(/_+/g, '_')
SanCollapse ==
    /\ spc = "collapse"
    /\ result' = ReplaceRuns(result, {"_"})
    /\ spc' = "strip"
    /\ UNCHANGED <<sArg, sanOut, sCall, out1>>
    /\ UNCHANGED notSan

\* Step 4: result.replace(/^_|_$/g, '')
SanStrip ==
    /\ spc = "strip"
    /\ result' = StripEnds(result)
    /\ spc' = "slice"
    /\ UNCHANGED <<sArg, sanOut, sCall, out1>>
    /\ UNCHANGED notSan

\* Step 5: return result.slice(0, 120) || 'untitled'
SanReturn ==
    /\ spc = "slice"
    /\ sanOut' = OrUntitled(Slice(result))
    /\ spc' = "done"
    /\ UNCHANGED <<sArg, result, sCall, out1>>
    /\ UNCHANGED notSan

\* safeFilename applied again, to what it returned
SanReapply ==
    /\ spc = "done" /\ sCall = 1
    /\ out1' = sanOut
    /\ sArg' = Str(sanOut)
    /\ result' = <<>> /\ sanOut' = <<>>
    /\ spc' = "trim" /\ sCall' = 2
    /\ UNCHANGED notSan

SanNext == SanTrim \/ SanReplace \/ SanCollapse \/ SanStrip \/ SanReturn \/ SanReapply

----------------------------------------------------------------------------
(* parser.ts: confluenceCodeMacroToFence.  Strings are sequences of atoms: an  *)
(* atom is one character, the line ending "\r\n", or the whole text of a      *)
(* placeholder token.                                                         *)

MaxBody == 3
MaxMacros == 2

\* the backtick character
Backtick == "<backtick>"

\* the template literal CODEBLOCKPLACEHOLDER${i}ENDCODEBLOCK, i counted from 0
Placeholder(i) ==
    CASE i = 0 -> "CODEBLOCKPLACEHOLDER0ENDCODEBLOCK"
      [] i = 1 -> "CODEBLOCKPLACEHOLDER1ENDCODEBLOCK"
      [] i = 2 -> "CODEBLOCKPLACEHOLDER2ENDCODEBLOCK"
      [] OTHER -> "CODEBLOCKPLACEHOLDER3ENDCODEBLOCK"

BodyAlphabet == {"x", " ", "\n", "\r\n", Backtick, "$", Placeholder(1)}

\* the code bodies (CDATA text) of up to MaxBody atoms
Bodies == UNION {[1..k -> BodyAlphabet] : k \in 0..MaxBody}

\* the language parameter: absent, or a name with surrounding blanks
Languages == {<<>>, <<"j", "s">>, <<" ", "p", "y", " ">>}

\* a code macro of the storage format: the language parameter directly after
\* the opening tag, then the plain-text body
CodeMacro(lang, body) == [lang |-> lang, body |-> body]

\* Bodies with macros: one macro with any body and language, optionally
\* followed by further macros with a fixed short body.
HtmlContents ==
    {<<CodeMacro(l, b)>> \o [k \in 1..n |-> CodeMacro(<<>>, <<"x">>)] :
        l \in Languages, b \in Bodies, n \in 0..(MaxMacros - 1)}

\* String.prototype.trim / trimEnd on atoms
IsBlank(a) == a \in {" ", "\n", "\r\n", "\t", "\r"}

TrimEnd(s) ==
    LET keep == {k \in 1..Len(s) : ~IsBlank(s[k])}
    IN  IF keep = {} THEN <<>>
        ELSE SubSeq(s, 1, CHOOSE k \in keep : \A m \in keep : k >= m)

TrimBoth(s) ==
    LET keep == {k \in 1..Len(s) : ~IsBlank(s[k])}
    IN  IF keep = {} THEN <<>>
        ELSE SubSeq(s, CHOOSE k \in keep : \A m \in keep : k <= m,
                       CHOOSE k \in keep : \A m \in keep : k >= m)

\* body.replace(/\r\n/g, '\n')
CrlfToLf(s) == [k \in 1..Len(s) |-> IF s[k] = "\r\n" THEN "\n" ELSE s[k]]

Fence == <<Backtick, Backtick, Backtick>>

\* the fenced block the replace callback builds for one match
FenceBlock(lang, body) ==
    LET language == TrimBoth(lang)
        code == TrimEnd(CrlfToLf(body))
    IN  <<"\n">> \o Fence \o language \o <<"\n">> \o code \o <<"\n">> \o Fence \o <<"\n">>

\* the <span> element the replace callback returns for match number i
Span(i) == [tag |-> "span", text |-> <<Placeholder(i)>>]

RECURSIVE Flatten(_)
Flatten(ss) == IF ss = <<>> THEN <<>> ELSE Head(ss) \o Flatten(Tail(ss))

\* turndownService.escape: str.replace(/\\/g, '\\\\'), only backslashes are escaped
Escape(s) ==
    Flatten([k \in 1..Len(s) |-> IF s[k] = "\\" THEN <<"\\", "\\">> ELSE <<s[k]>>])

\* turndownService.turndown on a sequence of inline <span> elements: their
\* text content, escaped
Turndown(nodes) == Flatten([k \in 1..Len(nodes) |-> Escape(nodes[k].text)])

\* the first index of atom a in s, 0 when absent (String.prototype.indexOf)
IndexOf(s, a) ==
    LET hits == {k \in 1..Len(s) : s[k] = a}
    IN  IF hits = {} THEN 0 ELSE CHOOSE k \in hits : \A m \in hits : k <= m

RECURSIVE GetSubstitution(_, _, _, _)
\* the replacement text of String.prototype.replace with a string pattern:
\* $$ -> $, $& -> the match, $ backtick -> the text before it, $' -> the text
\* after it
GetSubstitution(repl, matched, before, after) ==
    IF repl = <<>> THEN <<>>
    ELSE IF Head(repl) = "$" /\ Len(repl) >= 2
         THEN CASE repl[2] = "$" ->
                     <<"$">> \o GetSubstitution(SubSeq(repl, 3, Len(repl)), matched, before, after)
                [] repl[2] = "&" ->
                     <<matched>> \o GetSubstitution(SubSeq(repl, 3, Len(repl)), matched, before, after)
                [] repl[2] = Backtick ->
                     before \o GetSubstitution(SubSeq(repl, 3, Len(repl)), matched, before, after)
                [] repl[2] = "'" ->
                     after \o GetSubstitution(SubSeq(repl, 3, Len(repl)), matched, before, after)
                [] OTHER ->
                     <<"$">> \o GetSubstitution(Tail(repl), matched, before, after)
         ELSE <<Head(repl)>> \o GetSubstitution(Tail(repl), matched, before, after)

\* markdown.replace(pattern, replacement) with a string pattern: the first
\* occurrence only
StringReplace(s, pattern, repl) ==
    LET at == IndexOf(s, pattern)
    IN  IF at = 0 THEN s
        ELSE LET before == SubSeq(s, 1, at - 1)
                 after == SubSeq(s, at + 1, Len(s))
             IN  before \o GetSubstitution(repl, pattern, before, after) \o after

\* Step 1, one match of CODE_MACRO_REGEX: push the block, leave a placeholder
ReplaceMacro ==
    /\ fpc = "extract" /\ fi <= Len(htmlContent)
    /\ codeBlocks' = Append(codeBlocks,
                            FenceBlock(htmlContent[fi].lang, htmlContent[fi].body))
    /\ withPlaceholders' = Append(withPlaceholders, Span(Len(codeBlocks')- 1))
    /\ fi' = fi + 1
    /\ UNCHANGED <<htmlContent, markdown, fpc>>
    /\ UNCHANGED notFence

\* Step 2: let markdown = turndownService.turndown(withPlaceholders)
RunTurndown ==
    /\ fpc = "extract" /\ fi > Len(htmlContent)
    /\ markdown' = Turndown(withPlaceholders)
    /\ fpc' = "restore" /\ fi' = 1
    /\ UNCHANGED <<htmlContent, codeBlocks, withPlaceholders>>
    /\ UNCHANGED notFence

\* Step 3, one iteration of codeBlocks.forEach: splice block i back in
RestoreBlock ==
    /\ fpc = "restore" /\ fi <= Len(codeBlocks)
    /\ markdown' = StringReplace(markdown, Placeholder(fi - 1), codeBlocks[fi])
    /\ fi' = fi + 1
    /\ UNCHANGED <<htmlContent, codeBlocks, withPlaceholders, fpc>>
    /\ UNCHANGED notFence

\* return markdown
FenceReturn ==
    /\ fpc = "restore" /\ fi > Len(codeBlocks)
    /\ fpc' = "done"
    /\ UNCHANGED <<htmlContent, codeBlocks, withPlaceholders, markdown, fi>>
    /\ UNCHANGED notFence

FenceNext == ReplaceMacro \/ RunTurndown \/ RestoreBlock \/ FenceReturn

----------------------------------------------------------------------------
(* parser.ts: convertPages.  The steps that translate or render one page in  *)
(* one format may throw; the directory, attachment and metadata steps are    *)
(* taken to succeed.                                                         *)

MaxJobPages == 2
MaxAttachments == 1

NoFormats == [html |-> FALSE, markdown |-> FALSE, pdf |-> FALSE]

\* the format selections the routes pass on: at least one format
FormatSets == [html : BOOLEAN, markdown : BOOLEAN, pdf : BOOLEAN] \ {NoFormats}

\* the page lists of the job: every page has an id; body.storage.value may be
\* missing
JobPageLists(n) ==
    {[i \in 1..n |-> [id |-> IdList[i], hasBody |-> f[i]]] : f \in [1..n -> BOOLEAN]}

\* what happens to one attachment of the listing: downloaded, no download
\* link, or the download fails
ItemOutcomes == {"ok", "nolink", "fails"}

\* what happens inside client.downloadAttachments: the listing request of
\* getAttachments fails, or it returns up to MaxAttachments attachments
AttachOutcomes ==
    {[listed |-> FALSE, items |-> <<>>]} \cup
    {[listed |-> TRUE, items |-> its] :
        its \in UNION {[1..k -> ItemOutcomes] : k \in 0..MaxAttachments}}

CountOf(items, kinds) == Cardinality({k \in 1..Len(items) : items[k] \in kinds})

\* client.downloadAttachments: getAttachments catches the failure of the
\* listing and returns [], which gives { downloaded: 0, failed: 0 }; otherwise
\* one count per attachment
DownloadResult(o) ==
    IF ~o.listed \/ Len(o.items) = 0 THEN [downloaded |-> 0, failed |-> 0]
    ELSE [downloaded |-> CountOf(o.items, {"ok"}),
          failed |-> CountOf(o.items, {"nolink", "fails"})]

\* what client.downloadAttachments may resolve to
AttachResults == {DownloadResult(o) : o \in AttachOutcomes}

\* the steps inside the try/catch of the PDF block
PdfSteps == {"newPage", "render", "close"}

Thrown(step) == [page |-> pidx, step |-> step]
File(name) == [page |-> pidx, file |-> name]

UncaughtNoFinally(step) ==
    /\ jpc' = "end" /\ pending' = "throw" /\ status' = "threw"
    /\ thrown' = thrown \cup {Thrown(step)}

\* an exception inside try { ... } finally { ... } that no catch handles:
\* control goes to the finally block, the rejection is pending
Uncaught(step) ==
    /\ jpc' = "finally" /\ pending' = "throw" /\ status' = status
    /\ thrown' = thrown \cup {Thrown(step)}

PdfCaughtCounted(step) ==
    /\ jpc' = "count" /\ pdfCount' = pdfCount + 1
    /\ thrown' = thrown \cup {Thrown(step)}

\* catch (e) { logger.warn(...) } around the PDF steps of one page
PdfCaught(step) ==
    /\ jpc' = "count" /\ pdfCount' = pdfCount
    /\ thrown' = thrown \cup {Thrown(step)}

\* buildPageMap, _meta/pages.json, the counters
JobStart ==
    /\ jpc = "start"
    /\ pagesProcessed' = 0 /\ htmlCount' = 0 /\ mdCount' = 0 /\ pdfCount' = 0
    /\ attachmentsDownloaded' = 0 /\ attachmentsFailed' = 0
    /\ jpc' = "launch"
    /\ UNCHANGED <<attachLog, jobPages, formats, pidx, session, pending, status, thrown, written>>
    /\ UNCHANGED notJob

\* if (formats.pdf) browser = await puppeteer.default.launch(...)
LaunchBrowser ==
    /\ jpc = "launch" /\ formats.pdf
    /\ browser' = "open" /\ launches' = launches + 1
    /\ jpc' = "loop" /\ pidx' = 1
    /\ UNCHANGED <<attachLog, jobPages, formats, counters, closes, surfaces, pending, status,
                   thrown, written>>
    /\ UNCHANGED notJob

SkipLaunch ==
    /\ jpc = "launch" /\ ~formats.pdf
    /\ jpc' = "loop" /\ pidx' = 1
    /\ UNCHANGED <<attachLog, jobPages, formats, counters, session, pending, status, thrown, written>>
    /\ UNCHANGED notJob

\* for (const page of pages): the next page; buildPageOutputPath and
\* ensureDir(attachmentsDir)
PageBegin ==
    /\ jpc = "loop" /\ pidx <= Len(jobPages)
    /\ jpc' = "attach"
    /\ UNCHANGED <<attachLog, jobPages, formats, pidx, counters, session, pending, status,
                   thrown, written>>
    /\ UNCHANGED notJob

\* the loop is over: leave the try block normally
LoopEnd ==
    /\ jpc = "loop" /\ pidx > Len(jobPages)
    /\ jpc' = "finally" /\ pending' = "return"
    /\ UNCHANGED <<attachLog, jobPages, formats, pidx, counters, session, status, thrown, written>>
    /\ UNCHANGED notJob

\* const attachResult = await client.downloadAttachments(...); the two sums
DownloadAttachments ==
    /\ jpc = "attach"
    /\ \E o \in AttachOutcomes :
           /\ attachmentsDownloaded' = attachmentsDownloaded + DownloadResult(o).downloaded
           /\ attachmentsFailed' = attachmentsFailed + DownloadResult(o).failed
           /\ listFailures' = listFailures + (IF o.listed THEN 0 ELSE 1)
           /\ itemFailures' = itemFailures + CountOf(o.items, {"nolink", "fails"})
           /\ itemDownloads' = itemDownloads + CountOf(o.items, {"ok"})
    /\ jpc' = "meta"
    /\ UNCHANGED <<jobPages, formats, pidx, pagesProcessed, htmlCount, mdCount, pdfCount,
                   session, pending, status, thrown, written>>
    /\ UNCHANGED notJob

WriteMetaIfBody ==
    /\ jpc = "meta"
    /\ written' = IF jobPages[pidx].hasBody THEN written \cup {File("meta.json")}
                  ELSE written
    /\ jpc' = "body"
    /\ UNCHANGED <<attachLog, jobPages, formats, pidx, counters, session, pending, status, thrown>>
    /\ UNCHANGED notJob

\* writeJson(path.join(pageDir, 'meta.json'), page)
WriteMeta ==
    /\ jpc = "meta"
    /\ written' = written \cup {File("meta.json")}
    /\ jpc' = "body"
    /\ UNCHANGED <<attachLog, jobPages, formats, pidx, counters, session, pending, status, thrown>>
    /\ UNCHANGED notJob

NoBodyNotCounted ==
    /\ jpc = "body" /\ ~jobPages[pidx].hasBody
    /\ pidx' = pidx + 1 /\ jpc' = "loop"
    /\ UNCHANGED <<attachLog, jobPages, formats, counters, session, pending, status, thrown, written>>
    /\ UNCHANGED notJob

\* if (!bodyStorage) { pagesProcessed++; continue; }
NoBody ==
    /\ jpc = "body" /\ ~jobPages[pidx].hasBody
    /\ pagesProcessed' = pagesProcessed + 1
    /\ pidx' = pidx + 1 /\ jpc' = "loop"
    /\ UNCHANGED <<attachLog, jobPages, formats, htmlCount, mdCount, pdfCount, attachmentsDownloaded,
                   attachmentsFailed, session, pending, status, thrown, written>>
    /\ UNCHANGED notJob

HasBodyNotAwaited ==
    /\ jpc = "body" /\ jobPages[pidx].hasBody
    /\ pidx' = pidx + 1 /\ jpc' = "loop"
    /\ UNCHANGED <<attachLog, jobPages, formats, counters, session, pending, status,
                   thrown, written>>
    /\ UNCHANGED notJob

\* the page has a body: on to the formats
HasBody ==
    /\ jpc = "body" /\ jobPages[pidx].hasBody
    /\ jpc' = "html"
    /\ UNCHANGED <<attachLog, jobPages, formats, pidx, counters, session, pending, status,
                   thrown, written>>
    /\ UNCHANGED notJob

\* if (formats.html) { buildHtmlDoc; writeFile(page.html); htmlCount++ }
HtmlSkip ==
    /\ jpc = "html" /\ ~formats.html
    /\ jpc' = "md"
    /\ UNCHANGED <<attachLog, jobPages, formats, pidx, counters, session, pending, status,
                   thrown, written>>
    /\ UNCHANGED notJob

HtmlOk ==
    /\ jpc = "html" /\ formats.html
    /\ written' = written \cup {File("page.html")}
    /\ htmlCount' = htmlCount + 1
    /\ jpc' = "md"
    /\ UNCHANGED <<attachLog, jobPages, formats, pidx, pagesProcessed, mdCount, pdfCount,
                   attachmentsDownloaded, attachmentsFailed, session, pending, status,
                   thrown>>
    /\ UNCHANGED notJob

\* buildHtmlDoc or writeFile throws: nothing catches it inside the loop
HtmlThrows ==
    /\ jpc = "html" /\ formats.html
    /\ Uncaught("html")
    /\ UNCHANGED <<attachLog, jobPages, formats, pidx, counters, session, written>>
    /\ UNCHANGED notJob

\* if (formats.markdown) { confluenceCodeMacroToFence; writeFile(page.md); mdCount++ }
MdSkip ==
    /\ jpc = "md" /\ ~formats.markdown
    /\ jpc' = "pdf"
    /\ UNCHANGED <<attachLog, jobPages, formats, pidx, counters, session, pending, status,
                   thrown, written>>
    /\ UNCHANGED notJob

MdOk ==
    /\ jpc = "md" /\ formats.markdown
    /\ written' = written \cup {File("page.md")}
    /\ mdCount' = mdCount + 1
    /\ jpc' = "pdf"
    /\ UNCHANGED <<attachLog, jobPages, formats, pidx, pagesProcessed, htmlCount, pdfCount,
                   attachmentsDownloaded, attachmentsFailed, session, pending, status,
                   thrown>>
    /\ UNCHANGED notJob

\* confluenceCodeMacroToFence or writeFile throws: nothing catches it inside the loop
MdThrows ==
    /\ jpc = "md" /\ formats.markdown
    /\ Uncaught("markdown")
    /\ UNCHANGED <<attachLog, jobPages, formats, pidx, counters, session, written>>
    /\ UNCHANGED notJob

\* if (formats.pdf && browser) is false
PdfSkip ==
    /\ jpc = "pdf" /\ ~(formats.pdf /\ browser # "null")
    /\ jpc' = "count"
    /\ UNCHANGED <<attachLog, jobPages, formats, pidx, counters, session, pending, status,
                   thrown, written>>
    /\ UNCHANGED notJob

\* buildHtmlDocForPdf; const browserPage = await browser.newPage()
PdfNewPage ==
    /\ jpc = "pdf" /\ formats.pdf /\ browser # "null"
    /\ surfaces' = surfaces \cup {pidx}
    /\ jpc' = "pdfrender"
    /\ UNCHANGED <<attachLog, jobPages, formats, pidx, counters, browser, launches, closes, pending,
                   status, thrown, written>>
    /\ UNCHANGED notJob

PdfNewPageThrows ==
    /\ jpc = "pdf" /\ formats.pdf /\ browser # "null"
    /\ PdfCaught("newPage")
    /\ UNCHANGED <<attachLog, jobPages, formats, pidx, pagesProcessed, htmlCount, mdCount,
                   attachmentsDownloaded, attachmentsFailed, session, pending, status,
                   written>>
    /\ UNCHANGED notJob

\* await browserPage.setContent(...); await browserPage.pdf({ path: page.pdf })
PdfRender ==
    /\ jpc = "pdfrender"
    /\ written' = written \cup {File("page.pdf")}
    /\ jpc' = "pdfclose"
    /\ UNCHANGED <<attachLog, jobPages, formats, pidx, counters, session, pending, status, thrown>>
    /\ UNCHANGED notJob

\* setContent or pdf throws: the catch is entered, browserPage.close() is skipped
PdfRenderThrows ==
    /\ jpc = "pdfrender"
    /\ PdfCaught("render")
    /\ UNCHANGED <<attachLog, jobPages, formats, pidx, pagesProcessed, htmlCount, mdCount,
                   attachmentsDownloaded, attachmentsFailed, session, pending, status,
                   written>>
    /\ UNCHANGED notJob

\* await browserPage.close(); pdfCount++
PdfClose ==
    /\ jpc = "pdfclose"
    /\ surfaces' = surfaces \ {pidx}
    /\ pdfCount' = pdfCount + 1
    /\ jpc' = "count"
    /\ UNCHANGED <<attachLog, jobPages, formats, pidx, pagesProcessed, htmlCount, mdCount,
                   attachmentsDownloaded, attachmentsFailed, browser, launches, closes,
                   pending, status, thrown, written>>
    /\ UNCHANGED notJob

\* browserPage.close() throws: the catch is entered before pdfCount++
PdfCloseThrows ==
    /\ jpc = "pdfclose"
    /\ PdfCaught("close")
    /\ UNCHANGED <<attachLog, jobPages, formats, pidx, pagesProcessed, htmlCount, mdCount,
                   attachmentsDownloaded, attachmentsFailed, session, pending, status,
                   written>>
    /\ UNCHANGED notJob

PageDoneNotCounted ==
    /\ jpc = "count"
    /\ pidx' = pidx + 1 /\ jpc' = "loop"
    /\ UNCHANGED <<attachLog, jobPages, formats, counters, session, pending, status,
                   thrown, written>>
    /\ UNCHANGED notJob

\* pagesProcessed++; the next iteration
PageDone ==
    /\ jpc = "count"
    /\ pagesProcessed' = pagesProcessed + 1
    /\ pidx' = pidx + 1 /\ jpc' = "loop"
    /\ UNCHANGED <<attachLog, jobPages, formats, htmlCount, mdCount, pdfCount, attachmentsDownloaded,
                   attachmentsFailed, session, pending, status, thrown, written>>
    /\ UNCHANGED notJob

\* how the function settles once the finally block is done
Settled(p) == IF p = "return" THEN "returned" ELSE "threw"

\* finally { if (browser) await browser.close(); }: closing the browser closes
\* its pages
FinallyClose ==
    /\ jpc = "finally" /\ browser # "null"
    /\ browser' = "closed" /\ closes' = closes + 1 /\ surfaces' = {}
    /\ status' = Settled(pending) /\ jpc' = "end"
    /\ UNCHANGED <<attachLog, jobPages, formats, pidx, counters, launches, pending, thrown, written>>
    /\ UNCHANGED notJob

FinallySkip ==
    /\ jpc = "finally" /\ browser = "null"
    /\ status' = Settled(pending) /\ jpc' = "end"
    /\ UNCHANGED <<attachLog, jobPages, formats, pidx, counters, session, pending, thrown, written>>
    /\ UNCHANGED notJob

JobNext ==
    \/ JobStart \/ LaunchBrowser \/ SkipLaunch \/ PageBegin \/ LoopEnd
    \/ DownloadAttachments \/ WriteMeta \/ NoBody \/ HasBody
    \/ HtmlSkip \/ HtmlOk \/ HtmlThrows \/ MdSkip \/ MdOk \/ MdThrows
    \/ PdfSkip \/ PdfNewPage \/ PdfNewPageThrows \/ PdfRender \/ PdfRenderThrows
    \/ PdfClose \/ PdfCloseThrows \/ PageDone \/ FinallyClose \/ FinallySkip

----------------------------------------------------------------------------
(* treeBuilder.ts: getTreeStats, and parser.ts: getAncestorChain and         *)
(* buildPageOutputPath, on the page list buildTree was given.                *)

NoStats == [totalPages |-> 0, rootPages |-> 0, maxDepth |-> 0, pagesByLevel |-> <<>>]

Max2(a, b) == IF a >= b THEN a ELSE b

RECURSIVE MaxSeq(_)
\* Math.max(...xs) of a non-empty array
MaxSeq(xs) == IF Len(xs) = 1 THEN xs[1] ELSE Max2(Head(xs), MaxSeq(Tail(xs)))

CountDepthShallow(ch, id, currentDepth) == currentDepth

RECURSIVE CountDepth(_, _, _)
\* countDepth(node, currentDepth)
CountDepth(ch, id, currentDepth) ==
    IF Len(ch[id]) = 0 THEN currentDepth
    ELSE MaxSeq([k \in 1..Len(ch[id]) |-> CountDepth(ch, ch[id][k], currentDepth + 1)])

RECURSIVE MaxDepthLoop(_, _, _, _)
\* let maxDepth = 0; for (const child of tree.children) { depth = countDepth(child, 1);
\* if (depth > maxDepth) maxDepth = depth }
MaxDepthLoop(roots, ch, k, maxDepth) ==
    IF k > Len(roots) THEN maxDepth
    ELSE MaxDepthLoop(roots, ch, k + 1, Max2(maxDepth, CountDepth(ch, roots[k], 1)))

RECURSIVE NodesAtLevel(_, _, _)
\* the nodes countNodesByLevel visits with the given level, one entry per visit
NodesAtLevel(roots, ch, level) ==
    IF level = 1 THEN roots
    ELSE LET up == NodesAtLevel(roots, ch, level - 1)
         IN  Flatten([k \in 1..Len(up) |-> ch[up[k]]])

\* levelCounts: one key per level that holds a node
LevelCounts(roots, ch, maxDepth) ==
    [level \in 1..maxDepth |-> Len(NodesAtLevel(roots, ch, level))]

RootPagesAll(roots, total) == total

\* const rootPages = tree.children.length
RootPages(roots, total) == Len(roots)

\* getTreeStats(tree) on the tree buildTree returned
GetTreeStats ==
    /\ lpc = "stats" /\ tpc = "done"
    /\ stats' = [totalPages |-> totalPages,
                 rootPages |-> RootPages(rootNodes, totalPages),
                 maxDepth |-> MaxDepthLoop(rootNodes, children, 1, 0),
                 pagesByLevel |-> LevelCounts(rootNodes, children,
                                              MaxDepthLoop(rootNodes, children, 1, 0))]
    /\ lpc' = "page" /\ px' = 1
    /\ UNCHANGED <<ancestors, currentId, pagePath>>
    /\ UNCHANGED notForest

\* the characters of a title
TitleChars(t) == <<t>>

\* pageMap.get(id) of buildPageMap(pages): is there a page with this id
HasPage(ps, id) == \E p \in Range(ps) : p.id = id

UnshiftAsPush(arr, x) == Append(arr, x)

\* Array.prototype.unshift
Unshift(arr, x) == <<x>> \o arr

FolderNameTitleOnly(a) == safeFilename(Str(TitleChars(a.title)))

\* `${ancestor.id}_${safeFilename(ancestor.title)}`
FolderName(a) == <<a.id, "_">> \o safeFilename(Str(TitleChars(a.title)))

ParentIdOfSelf(ps, id) == id

\* currentId = page.parentId
ParentIdOf(ps, id) == PageOf(ps, id).parentId

\* getAncestorChain(page.id, pageMap): ancestors = [], currentId = pageId
ChainBegin ==
    /\ lpc = "page" /\ px <= Len(pages)
    /\ ancestors' = <<>> /\ currentId' = pages[px].id
    /\ lpc' = "chain"
    /\ UNCHANGED <<stats, px, pagePath>>
    /\ UNCHANGED notForest

\* one turn of while (currentId): the page is found.  The loop has no bound of
\* its own; the model stops following it after MaxPages + 1 turns.
ChainStep ==
    /\ lpc = "chain" /\ currentId # Null /\ HasPage(pages, currentId)
    /\ Len(ancestors) <= MaxPages
    /\ ancestors' = Unshift(ancestors, [id |-> PageOf(pages, currentId).id,
                                        title |-> PageOf(pages, currentId).title])
    /\ currentId' = ParentIdOf(pages, currentId)
    /\ UNCHANGED <<lpc, stats, px, pagePath>>
    /\ UNCHANGED notForest

\* currentId is null, or if (!page) break; then the folders of
\* buildPageOutputPath: pages/ and one folder per ancestor
BuildPagePath ==
    /\ lpc = "chain" /\ (currentId = Null \/ ~HasPage(pages, currentId))
    /\ pagePath' = <<"pages">> \o [k \in 1..Len(ancestors) |-> FolderName(ancestors[k])]
    /\ lpc' = "ensured"
    /\ UNCHANGED <<stats, px, ancestors, currentId>>
    /\ UNCHANGED notForest

\* the next page of the job
NextPagePath ==
    /\ lpc = "ensured"
    /\ px' = px + 1 /\ lpc' = "page"
    /\ UNCHANGED <<stats, ancestors, currentId, pagePath>>
    /\ UNCHANGED notForest

ForestNext ==
    \/ BuildPageMap \/ LinkRoot \/ LinkChild \/ LinkOrphan \/ SortTree
    \/ GetTreeStats \/ ChainBegin \/ ChainStep \/ BuildPagePath \/ NextPagePath

----------------------------------------------------------------------------
(* routes/backup.ts: the handlers of POST /api/backup and                    *)
(* POST /api/backup/download.  The conversion is convertPages as a whole.    *)

\* a body without the formats object
NoFlags == [given |-> FALSE, html |-> FALSE, md |-> FALSE, pdf |-> FALSE]

NoRequest == [route |-> "none", spaceId |-> "", format |-> "", formats |-> NoFlags,
              level |-> "", targets |-> FALSE]

\* const validFormats
ValidFormats == {"html", "markdown", "pdf", "html+md", "html+pdf", "md+pdf", "all"}

\* const validLevels
ValidLevels == {"space", "folder", "page"}

\* the request bodies: spaceId missing or given, format missing, valid or not
\* valid, formats missing or three flags, level missing, valid or not valid,
\* targetIds empty or not
BackupRequests ==
    [route : {"backup"}, spaceId : {"", "S"}, format : ValidFormats \cup {"", "bogus"},
     formats : {NoFlags}, level : ValidLevels \cup {"", "bogus"}, targets : BOOLEAN]

DownloadRequests ==
    [route : {"download"}, spaceId : {"", "S"}, format : {""},
     formats : {NoFlags} \cup [given : {TRUE}, html : BOOLEAN, md : BOOLEAN, pdf : BOOLEAN],
     level : ValidLevels \cup {"", "bogus"}, targets : BOOLEAN]

\* parseFormats(format)
parseFormats(format) ==
    CASE format = "html" -> [html |-> TRUE, markdown |-> FALSE, pdf |-> FALSE]
      [] format = "markdown" -> [html |-> FALSE, markdown |-> TRUE, pdf |-> FALSE]
      [] format = "pdf" -> [html |-> FALSE, markdown |-> FALSE, pdf |-> TRUE]
      [] format = "html+md" -> [html |-> TRUE, markdown |-> TRUE, pdf |-> FALSE]
      [] format = "html+pdf" -> [html |-> TRUE, markdown |-> FALSE, pdf |-> TRUE]
      [] format = "md+pdf" -> [html |-> FALSE, markdown |-> TRUE, pdf |-> TRUE]
      [] format = "all" -> [html |-> TRUE, markdown |-> TRUE, pdf |-> TRUE]
      [] OTHER -> [html |-> FALSE, markdown |-> TRUE, pdf |-> FALSE]

\* the formats the handler passes to convertPages
FormatsPassed(r) ==
    IF r.route = "backup" THEN parseFormats(r.format)
    ELSE [html |-> r.formats.html, markdown |-> r.formats.md, pdf |-> r.formats.pdf]

SomeFormatFlagUnchecked(r) == TRUE

\* the negation of !formats || (!formats.html && !formats.md && !formats.pdf)
SomeFormatFlag(r) ==
    r.formats.given /\ (r.formats.html \/ r.formats.md \/ r.formats.pdf)

\* (level === 'folder' || level === 'page') && (!targetIds || targetIds.length === 0)
TargetsMissing(r) == r.level \in {"folder", "page"} /\ ~r.targets

\* the request passes every early return of its handler
Accepted(r) ==
    IF r.route = "backup"
    THEN /\ r.spaceId # "" /\ r.format # ""
         /\ r.format \in ValidFormats
         /\ (r.level = "" \/ r.level \in ValidLevels)
         /\ ~TargetsMissing(r)
    ELSE /\ r.spaceId # ""
         /\ SomeFormatFlag(r)
         /\ ~TargetsMissing(r)

\* return res.status(400).json(...)
Reject ==
    /\ rpc = "validate" /\ ~Accepted(req)
    /\ response' = 400 /\ rpc' = "done"
    /\ UNCHANGED <<req, listings, dirsMade, sessionsMade, tempDir, zipFile>>
    /\ UNCHANGED notRoute

\* let pages = await client.getPagesFromSpace(spaceId), and the filter
FetchPages ==
    /\ rpc = "validate" /\ Accepted(req)
    /\ listings' = listings + 1
    /\ rpc' = "mkdir"
    /\ UNCHANGED <<req, dirsMade, sessionsMade, tempDir, zipFile, response>>
    /\ UNCHANGED notRoute

\* getPagesFromSpace rejects: the outer catch answers 500
FetchFails ==
    /\ rpc = "validate" /\ Accepted(req)
    /\ listings' = listings + 1
    /\ response' = 500 /\ rpc' = "done"
    /\ UNCHANGED <<req, dirsMade, sessionsMade, tempDir, zipFile>>
    /\ UNCHANGED notRoute

\* ensureDir(outputRoot) / ensureDir(tempDir)
MakeDir ==
    /\ rpc = "mkdir"
    /\ dirsMade' = dirsMade + 1
    /\ tempDir' = IF req.route = "download" THEN "exists" ELSE tempDir
    /\ rpc' = "convert"
    /\ UNCHANGED <<req, listings, sessionsMade, zipFile, response>>
    /\ UNCHANGED notRoute

\* the browsers convertPages launches: one if formats.pdf
Launched(f) == IF f.pdf THEN 1 ELSE 0

\* await convertPages(...) resolves; POST /api/backup answers with the counts
ConvertReturns ==
    /\ rpc = "convert"
    /\ sessionsMade' = sessionsMade + Launched(FormatsPassed(req))
    /\ IF req.route = "backup"
       THEN response' = 200 /\ rpc' = "done"
       ELSE response' = response /\ rpc' = "zip"
    /\ UNCHANGED <<req, listings, dirsMade, tempDir, zipFile>>
    /\ UNCHANGED notRoute

\* await convertPages(...) rejects: the download handler removes tempDir and
\* rethrows, the outer catch answers 500
ConvertThrows ==
    /\ rpc = "convert"
    /\ sessionsMade' = sessionsMade + Launched(FormatsPassed(req))
    /\ tempDir' = IF req.route = "download" THEN "removed" ELSE tempDir
    /\ response' = 500 /\ rpc' = "done"
    /\ UNCHANGED <<req, listings, dirsMade, zipFile>>
    /\ UNCHANGED notRoute

\* fs.createWriteStream(zipPath), archive.finalize(), output 'close'
ZipDone ==
    /\ rpc = "zip"
    /\ zipFile' = "exists" /\ rpc' = "stream"
    /\ UNCHANGED <<req, listings, dirsMade, sessionsMade, tempDir, response>>
    /\ UNCHANGED notRoute

\* archive 'error': the promise rejects, the inner catch removes tempDir only
ZipFails ==
    /\ rpc = "zip"
    /\ zipFile' = "exists" /\ tempDir' = "removed"
    /\ response' = 500 /\ rpc' = "done"
    /\ UNCHANGED <<req, listings, dirsMade, sessionsMade>>
    /\ UNCHANGED notRoute

\* fileStream.pipe(res) and fileStream 'end' or 'error': both remove tempDir
\* and the ZIP file
StreamEnds ==
    /\ rpc = "stream"
    /\ response' = 200
    /\ tempDir' = "removed" /\ zipFile' = "removed" /\ rpc' = "done"
    /\ UNCHANGED <<req, listings, dirsMade, sessionsMade>>
    /\ UNCHANGED notRoute

RouteNext ==
    \/ Reject \/ FetchPages \/ FetchFails \/ MakeDir \/ ConvertReturns \/ ConvertThrows
    \/ ZipDone \/ ZipFails \/ StreamEnds

----------------------------------------------------------------------------
(* routes/spaces.ts: the cache of the page lists and the two GET handlers    *)
(* that use it; routes/pages.ts: DELETE /:id and POST /bulk-delete (without  *)
(* includeChildren).  One Space, one GET handler in progress at a time; time *)
(* is counted in minutes.                                                    *)

\* const CACHE_TTL = 5 * 60 * 1000
CACHE_TTL == 5

MaxClock == 6

Spaces == {"S"}
AllPages == {"p1", "p2"}

\* the Space a page belongs to
SpaceOf(p) == "S"

PagesIn(space, live) == {p \in live : SpaceOf(p) = space}

NoEntry == [present |-> FALSE, pages |-> {}, timestamp |-> 0]

NoGet == [stage |-> "free", space |-> "", refresh |-> FALSE, pages |-> {}]

NoBulk == [stage |-> "idle", pageIds |-> <<>>, includeChildren |-> FALSE, ci |-> 0,
           allPageIds |-> <<>>, todo |-> <<>>, spaceId |-> "", calls |-> <<>>,
           results |-> <<>>, success |-> FALSE]

NoResponse == [source |-> "none", space |-> "", refresh |-> FALSE, fresh |-> FALSE]

\* cached && Date.now() - cached.timestamp < CACHE_TTL
Fresh(entry, t) == entry.present /\ t - entry.timestamp < CACHE_TTL

HitIgnoringRefresh(refresh, entry, t) == Fresh(entry, t)

\* !refresh && cached && Date.now() - cached.timestamp < CACHE_TTL
Hit(refresh, entry, t) == ~refresh /\ Fresh(entry, t)

\* time passes
Tick ==
    /\ now < MaxClock
    /\ now' = now + 1
    /\ UNCHANGED <<upstream, pagesCache, gets, bulk, deleted, lastResponse>>
    /\ UNCHANGED notCache

\* GET /:id/pages or GET /:id/tree, cache hit: the answer is the cached list
GetFromCache ==
    /\ \E space \in Spaces, kind \in {"pages", "tree"}, refresh \in BOOLEAN :
           /\ Hit(refresh, pagesCache[space], now)
           /\ lastResponse' = [source |-> "cache", space |-> space, refresh |-> refresh,
                               fresh |-> pagesCache[space].present /\
                                         now - pagesCache[space].timestamp < CACHE_TTL]
    /\ UNCHANGED <<now, upstream, pagesCache, gets, bulk, deleted>>
    /\ UNCHANGED notCache

\* GET /:id/pages or GET /:id/tree, no hit: client.getPagesFromSpace is called
GetStartFetch ==
    /\ gets.stage = "free"
    /\ \E space \in Spaces, kind \in {"pages", "tree"}, refresh \in BOOLEAN :
           /\ ~Hit(refresh, pagesCache[space], now)
           /\ gets' = [stage |-> "fetching", space |-> space, refresh |-> refresh,
                       pages |-> {}]
    /\ UNCHANGED <<now, upstream, pagesCache, bulk, deleted, lastResponse>>
    /\ UNCHANGED notCache

\* getPagesFromSpace resolves with the pages of the Space; getSpaces is called
GetFetched ==
    /\ gets.stage = "fetching"
    /\ gets' = [gets EXCEPT !.stage = "naming", !.pages = PagesIn(gets.space, upstream)]
    /\ UNCHANGED <<now, upstream, pagesCache, bulk, deleted, lastResponse>>
    /\ UNCHANGED notCache

\* getSpaces resolves: pagesCache.set(spaceId, { pages, spaceName, timestamp }),
\* the answer is the fetched list
GetStore ==
    /\ gets.stage = "naming"
    /\ pagesCache' = [pagesCache EXCEPT ![gets.space] =
                         [present |-> TRUE, pages |-> gets.pages, timestamp |-> now]]
    /\ lastResponse' = [source |-> "upstream", space |-> gets.space,
                        refresh |-> gets.refresh, fresh |-> FALSE]
    /\ gets' = NoGet
    /\ UNCHANGED <<now, upstream, bulk, deleted>>
    /\ UNCHANGED notCache

\* getPagesFromSpace or getSpaces rejects: catch, status 500
GetFails ==
    /\ gets.stage \in {"fetching", "naming"}
    /\ lastResponse' = [source |-> "error", space |-> gets.space,
                        refresh |-> gets.refresh, fresh |-> FALSE]
    /\ gets' = NoGet
    /\ UNCHANGED <<now, upstream, pagesCache, bulk, deleted>>
    /\ UNCHANGED notCache

\* what DELETE /:id does to pagesCache: nothing (it deletes the entry of the
\* page in the preview cache only)
AfterSingleDelete(cache, p) == cache

\* DELETE /:id: client.deletePage resolves, pageCache.delete(pageId), success
DeletePage ==
    /\ \E p \in upstream :
           /\ upstream' = upstream \ {p}
           /\ deleted' = deleted \cup {p}
           /\ pagesCache' = AfterSingleDelete(pagesCache, p)
    /\ UNCHANGED <<now, gets, bulk, lastResponse>>
    /\ UNCHANGED notCache

\* clearSpaceCache(spaceId): pagesCache.delete(spaceId)
clearSpaceCache(cache, spaceId) == [cache EXCEPT ![spaceId] = NoEntry]

\* the pageIds arrays of a request body: one id, a repeated id, a page and
\* its child
PageIdLists == {<<"p1">>, <<"p1", "p1">>, <<"p1", "p2">>}

\* GET /pages/{id}/children, followed down: p2 is the child of p1
ChildrenOf(p) == IF p = "p1" THEN <<"p2">> ELSE <<>>

\* client.getDescendantPageIds(pageId), over the pages that exist
Descendants(p, live) == SelectSeq(ChildrenOf(p), LAMBDA c : c \in live)

RECURSIVE AddAllKeepDuplicates(_, _)
AddAllKeepDuplicates(set, ids) ==
    IF ids = <<>> THEN set
    ELSE AddAllKeepDuplicates(Append(set, Head(ids)), Tail(ids))

RECURSIVE AddAll(_, _)
\* Set.prototype.add for each id of ids, the Set kept in insertion order
AddAll(set, ids) ==
    IF ids = <<>> THEN set
    ELSE AddAll(IF Head(ids) \in Range(set) THEN set ELSE Append(set, Head(ids)),
                Tail(ids))

FailCount(results) == Cardinality({k \in 1..Len(results) : ~results[k].success})

\* success: failCount === 0
Success(results) == FailCount(results) = 0

\* POST /bulk-delete with a non-empty pageIds array: allPageIds = new
\* Set(pageIds); includeChildren and spaceId are optional
BulkStart ==
    /\ bulk.stage \in {"idle", "responded"}
    /\ \E ids \in PageIdLists, inc \in BOOLEAN, spaceId \in Spaces \cup {""} :
           bulk' = [stage |-> IF inc THEN "collecting" ELSE "deleting",
                    pageIds |-> ids, includeChildren |-> inc, ci |-> 1,
                    allPageIds |-> AddAll(<<>>, ids),
                    todo |-> AddAll(<<>>, ids), spaceId |-> spaceId,
                    calls |-> <<>>, results |-> <<>>, success |-> FALSE]
    /\ UNCHANGED <<now, upstream, pagesCache, gets, deleted, lastResponse>>
    /\ UNCHANGED notCache

\* the loop has gone through pageIds: const pageIdsArray = Array.from(allPageIds)
AfterCollect(b) ==
    IF b.ci > Len(b.pageIds) THEN [b EXCEPT !.stage = "deleting", !.todo = b.allPageIds]
    ELSE b

\* includeChildren, one turn: getDescendantPageIds resolves, every id is added
BulkCollect ==
    /\ bulk.stage = "collecting"
    /\ bulk.pageIds[bulk.ci] \in upstream
    /\ bulk' = AfterCollect([bulk EXCEPT
                   !.allPageIds = AddAll(@, Descendants(bulk.pageIds[bulk.ci], upstream)),
                   !.ci = @ + 1])
    /\ UNCHANGED <<now, upstream, pagesCache, gets, deleted, lastResponse>>
    /\ UNCHANGED notCache

\* includeChildren, one turn: getDescendantPageIds rejects, a warning is logged
BulkCollectFails ==
    /\ bulk.stage = "collecting"
    /\ bulk' = AfterCollect([bulk EXCEPT !.ci = @ + 1])
    /\ UNCHANGED <<now, upstream, pagesCache, gets, deleted, lastResponse>>
    /\ UNCHANGED notCache

Result(pageId, ok) == [pageId |-> pageId, success |-> ok]

\* one turn of the loop: client.deletePage resolves
BulkDeleteOne ==
    /\ bulk.stage = "deleting" /\ bulk.todo # <<>>
    /\ Head(bulk.todo) \in upstream
    /\ upstream' = upstream \ {Head(bulk.todo)}
    /\ deleted' = deleted \cup {Head(bulk.todo)}
    /\ bulk' = [bulk EXCEPT !.todo = Tail(bulk.todo),
                            !.calls = Append(@, Head(bulk.todo)),
                            !.results = Append(@, Result(Head(bulk.todo), TRUE))]
    /\ UNCHANGED <<now, pagesCache, gets, lastResponse>>
    /\ UNCHANGED notCache

\* one turn of the loop: client.deletePage rejects, the failure is recorded
BulkDeleteFails ==
    /\ bulk.stage = "deleting" /\ bulk.todo # <<>>
    /\ bulk' = [bulk EXCEPT !.todo = Tail(bulk.todo),
                            !.calls = Append(@, Head(bulk.todo)),
                            !.results = Append(@, Result(Head(bulk.todo), FALSE))]
    /\ UNCHANGED <<now, upstream, pagesCache, gets, deleted, lastResponse>>
    /\ UNCHANGED notCache

\* after the loop: if (spaceId) clearSpaceCache(spaceId); res.json({ success,
\* message, results })
BulkFinish ==
    /\ bulk.stage = "deleting" /\ bulk.todo = <<>>
    /\ pagesCache' = IF bulk.spaceId # "" THEN clearSpaceCache(pagesCache, bulk.spaceId)
                     ELSE pagesCache
    /\ bulk' = [bulk EXCEPT !.stage = "responded", !.success = Success(bulk.results)]
    /\ UNCHANGED <<now, upstream, gets, deleted, lastResponse>>
    /\ UNCHANGED notCache

CacheNext ==
    \/ Tick \/ GetFromCache \/ GetStartFetch \/ GetFetched \/ GetStore \/ GetFails
    \/ DeletePage \/ BulkStart \/ BulkCollect \/ BulkCollectFails
    \/ BulkDeleteOne \/ BulkDeleteFails \/ BulkFinish

----------------------------------------------------------------------------
(* parser.ts: convertViewFileMacro as processConfluenceHtml and              *)
(* processConfluenceHtmlForPdf call it.  The body is a sequence of elements: *)
(* plain text and view-file macros; the other conversions leave both alone.  *)

MaxElements == 3

\* the file names of the view-file macros ([^"]+: at least one character)
FileNames == {<<"a">>, <<"a", " ", "b">>, <<"&">>}

TextElement == [kind |-> "text", filename |-> <<>>, href |-> <<>>, label |-> <<>>]

ViewFileMacro(f) == [kind |-> "view-file", filename |-> f, href |-> <<>>, label |-> <<>>]

BodyElements == {TextElement} \cup {ViewFileMacro(f) : f \in FileNames}

ViewFileBodies == UNION {[1..k -> BodyElements] : k \in 0..MaxElements}

\* the attachments path of the two callers: './attachments' for the HTML
\* document, the absolute path of the folder for the PDF document
RelativeAttachments == <<".", "/", "attachments">>
AbsoluteAttachments == <<"/", "tmp", "/", "attachments">>

\* escapeHtml
escapeHtml(cs) ==
    Flatten([k \in 1..Len(cs) |->
        CASE cs[k] = "&" -> <<"&amp;">>
          [] cs[k] = "<" -> <<"&lt;">>
          [] cs[k] = ">" -> <<"&gt;">>
          [] cs[k] = "\"" -> <<"&quot;">>
          [] cs[k] = "'" -> <<"&#039;">>
          [] OTHER -> <<cs[k]>>])

\* encodeURIComponent on the characters of the file names
encodeURIComponent(cs) ==
    Flatten([k \in 1..Len(cs) |->
        CASE cs[k] = " " -> <<"%20">>
          [] cs[k] = "&" -> <<"%26">>
          [] OTHER -> <<cs[k]>>])

\* the replace callback: <a href="${attachmentsPath}/${encodeURIComponent(filename)}"
\* class="attachment-link">(clip) ${escapeHtml(filename)}</a>
AttachmentLink(filename, attachmentsPath) ==
    [kind |-> "a", filename |-> filename,
     href |-> attachmentsPath \o <<"/">> \o encodeURIComponent(filename),
     label |-> escapeHtml(filename)]

\* the attachments path convertViewFileMacro is called with
ViewFilePath(mode, attachmentsPath) ==
    IF mode = "pdf" THEN RelativeAttachments ELSE attachmentsPath

\* the conversions before convertViewFileMacro: code, image, expand, callout
ViewFileBegin ==
    /\ vpc = "before"
    /\ vpc' = "view-file" /\ vi' = 1
    /\ UNCHANGED <<vfMode, vfPath, processed>>
    /\ UNCHANGED notViewFile

\* html.replace(VIEW_FILE_MACRO_REGEX, callback): one match
ViewFileReplace ==
    /\ vpc = "view-file" /\ vi <= Len(processed)
    /\ processed[vi].kind = "view-file"
    /\ processed' = [processed EXCEPT ![vi] =
           AttachmentLink(processed[vi].filename, ViewFilePath(vfMode, vfPath))]
    /\ vi' = vi + 1
    /\ UNCHANGED <<vfMode, vfPath, vpc>>
    /\ UNCHANGED notViewFile

\* text between the matches is kept
ViewFileKeep ==
    /\ vpc = "view-file" /\ vi <= Len(processed)
    /\ processed[vi].kind # "view-file"
    /\ vi' = vi + 1
    /\ UNCHANGED <<vfMode, vfPath, processed, vpc>>
    /\ UNCHANGED notViewFile

\* removeTocMacro and return processed
ViewFileReturn ==
    /\ vpc = "view-file" /\ vi > Len(processed)
    /\ vpc' = "done"
    /\ UNCHANGED <<vfMode, vfPath, processed, vi>>
    /\ UNCHANGED notViewFile

ViewFileNext == ViewFileBegin \/ ViewFileReplace \/ ViewFileKeep \/ ViewFileReturn

----------------------------------------------------------------------------
(* routes/backup.ts: POST /api/backup/download, several requests at a time.  *)
(* The handlers share the file system under os.tmpdir(); each await is a     *)
(* point where another request may run.  The requests have passed the early  *)
(* returns.                                                                  *)

MaxDownloads == 2
MaxMs == 1

Requests == 1..MaxDownloads

\* the spaceId of a request body
DlSpaces == {"S", "T"}

NoDir == [spaceId |-> "", stamp |-> 0]

\* path.join(os.tmpdir(), 'confluence-backup', `${spaceId}_${Date.now()}`)
TempDirOf(spaceId, t) == [spaceId |-> spaceId, stamp |-> t]

DirNames == {TempDirOf(s, t) : s \in DlSpaces, t \in 0..MaxMs} \cup {NoDir}

\* path.join(os.tmpdir(), `${spaceId}_${safeSpaceName}.zip`); a Space has one
\* name
ZipPathOf(spaceId) == <<spaceId>>

ZipNames == {ZipPathOf(s) : s \in DlSpaces}

NoData == [exports |-> {}, writers |-> {}]
NoDirEntry == [exists |-> FALSE, files |-> {}]

NewDownload(s) == [spaceId |-> s, pc |-> "fetch", tempDir |-> NoDir, zipPath |-> <<>>,
                   wfd |-> 0, rfd |-> 0, sent |-> NoData, status |-> 0]

\* Date.now() moves on
MsTick ==
    /\ msNow < MaxMs
    /\ msNow' = msNow + 1
    /\ UNCHANGED <<downloads, tmpDirs, zipPaths, inodes>>
    /\ UNCHANGED notOverlap

\* ensureDir(dir): mkdirSync unless the directory exists
EnsureDir(dirs, dir) ==
    IF dirs[dir].exists THEN dirs ELSE [dirs EXCEPT ![dir] = [exists |-> TRUE, files |-> {}]]

\* fs.rm(dir, { recursive: true, force: true })
RmDir(dirs, dir) == [dirs EXCEPT ![dir] = NoDirEntry]

\* fs.unlink(zipPath): the name is removed, an open file keeps its data
Unlink(zips, name) == [zips EXCEPT ![name] = 0]

\* await client.getPagesFromSpace resolves; tempDir is named and ensured
DlFetched ==
    \E r \in Requests :
        /\ downloads[r].pc = "fetch"
        /\ LET dir == TempDirOf(downloads[r].spaceId, msNow)
           IN  /\ tmpDirs' = EnsureDir(tmpDirs, dir)
               /\ downloads' = [downloads EXCEPT ![r].pc = "convert", ![r].tempDir = dir]
        /\ UNCHANGED <<msNow, zipPaths, inodes>>
        /\ UNCHANGED notOverlap

\* getPagesFromSpace rejects: the outer catch answers 500
DlFetchFails ==
    \E r \in Requests :
        /\ downloads[r].pc = "fetch"
        /\ downloads' = [downloads EXCEPT ![r].pc = "done", ![r].status = 500]
        /\ UNCHANGED <<msNow, tmpDirs, zipPaths, inodes>>
        /\ UNCHANGED notOverlap

\* await convertPages resolves: the export of the request is in tempDir
\* (writeFile ensures the directory); zipPath is named, the write stream and
\* the archive are set up
DlConverted ==
    \E r \in Requests :
        /\ downloads[r].pc = "convert"
        /\ tmpDirs' = [tmpDirs EXCEPT ![downloads[r].tempDir] =
                          [exists |-> TRUE, files |-> tmpDirs[downloads[r].tempDir].files \cup {r}]]
        /\ downloads' = [downloads EXCEPT ![r].pc = "zip",
                                          ![r].zipPath = ZipPathOf(downloads[r].spaceId)]
        /\ UNCHANGED <<msNow, zipPaths, inodes>>
        /\ UNCHANGED notOverlap

\* await convertPages rejects: the inner catch removes tempDir, the outer
\* catch answers 500
DlConvertThrows ==
    \E r \in Requests :
        /\ downloads[r].pc = "convert"
        /\ tmpDirs' = RmDir(tmpDirs, downloads[r].tempDir)
        /\ downloads' = [downloads EXCEPT ![r].pc = "done", ![r].status = 500]
        /\ UNCHANGED <<msNow, zipPaths, inodes>>
        /\ UNCHANGED notOverlap

\* what archive.directory(tempDir, false) puts into the archive
ArchiveOf(dirs, dir) == IF dirs[dir].exists THEN dirs[dir].files ELSE {}

\* the requests that are writing into inode i
WritingTo(i) == {q \in Requests : downloads[q].pc = "zipping" /\ downloads[q].wfd = i}

\* the write stream opens zipPath with flag 'w': the file is created, or the
\* file under that name is truncated; the archive is written into it
DlZipOpen ==
    \E r \in Requests :
        /\ downloads[r].pc = "zip"
        /\ LET name == downloads[r].zipPath
               i == IF zipPaths[name] = 0 THEN r ELSE zipPaths[name]
           IN  /\ zipPaths' = [zipPaths EXCEPT ![name] = i]
               /\ inodes' = [inodes EXCEPT ![i] =
                                [exports |-> ArchiveOf(tmpDirs, downloads[r].tempDir),
                                 writers |-> {r} \cup WritingTo(i)]]
               /\ downloads' = [downloads EXCEPT ![r].pc = "zipping", ![r].wfd = i]
        /\ UNCHANGED <<msNow, tmpDirs>>
        /\ UNCHANGED notOverlap

\* output 'close': the promise resolves; headers, createReadStream(zipPath),
\* pipe, the 'end' and 'error' handlers
DlZipClosed ==
    \E r \in Requests :
        /\ downloads[r].pc = "zipping"
        /\ downloads' = [downloads EXCEPT ![r].pc = "zipped"]
        /\ UNCHANGED <<msNow, tmpDirs, zipPaths, inodes>>
        /\ UNCHANGED notOverlap

\* archive 'error': the promise rejects, the inner catch removes tempDir
\* only, the outer catch answers 500
DlZipFails ==
    \E r \in Requests :
        /\ downloads[r].pc = "zipping"
        /\ tmpDirs' = RmDir(tmpDirs, downloads[r].tempDir)
        /\ downloads' = [downloads EXCEPT ![r].pc = "done", ![r].status = 500]
        /\ UNCHANGED <<msNow, zipPaths, inodes>>
        /\ UNCHANGED notOverlap

\* the read stream opens zipPath
DlStreamOpen ==
    \E r \in Requests :
        /\ downloads[r].pc = "zipped"
        /\ zipPaths[downloads[r].zipPath] # 0
        /\ downloads' = [downloads EXCEPT ![r].pc = "streaming",
                                          ![r].rfd = zipPaths[downloads[r].zipPath]]
        /\ UNCHANGED <<msNow, tmpDirs, zipPaths, inodes>>
        /\ UNCHANGED notOverlap

\* the read stream cannot open zipPath (no such file): fileStream 'error'
\* removes tempDir and the ZIP file; the response has its headers and no body
DlStreamError ==
    \E r \in Requests :
        /\ downloads[r].pc = "zipped"
        /\ zipPaths[downloads[r].zipPath] = 0
        /\ tmpDirs' = RmDir(tmpDirs, downloads[r].tempDir)
        /\ zipPaths' = Unlink(zipPaths, downloads[r].zipPath)
        /\ downloads' = [downloads EXCEPT ![r].pc = "done", ![r].status = 200]
        /\ UNCHANGED <<msNow, inodes>>
        /\ UNCHANGED notOverlap

\* fileStream 'end': the data of the open file went to the client; tempDir
\* and the ZIP file are removed
DlStreamEnd ==
    \E r \in Requests :
        /\ downloads[r].pc = "streaming"
        /\ tmpDirs' = RmDir(tmpDirs, downloads[r].tempDir)
        /\ zipPaths' = Unlink(zipPaths, downloads[r].zipPath)
        /\ downloads' = [downloads EXCEPT ![r].pc = "done", ![r].status = 200,
                                          ![r].sent = inodes[downloads[r].rfd]]
        /\ UNCHANGED <<msNow, inodes>>
        /\ UNCHANGED notOverlap

OverlapNext ==
    \/ MsTick \/ DlFetched \/ DlFetchFails \/ DlConverted \/ DlConvertThrows
    \/ DlZipOpen \/ DlZipClosed \/ DlZipFails \/ DlStreamOpen \/ DlStreamError
    \/ DlStreamEnd

----------------------------------------------------------------------------
(* client/store/useStore.ts: selectSpace and refreshCurrentSpace.  Each call *)
(* runs up to its await; the continuation runs when the two requests of its  *)
(* Promise.all have settled.                                                 *)

MaxFetches == 3

\* the ids of the Spaces the user can select
StoreSpaces == {"A", "B"}

RECURSIVE SumOver(_, _)
SumOver(f, S) ==
    IF S = {} THEN 0
    ELSE LET x == CHOOSE y \in S : TRUE IN f[x] + SumOver(f, S \ {x})

\* the fetches that have not settled
Pending == SumOver(inFlight, StoreSpaces)

\* selectSpace(space), pagesCache and treeCache hold the Space: the selection
\* changes, nothing is fetched
SelectCached ==
    \E space \in StoreSpaces :
        /\ space \in cachedSpaces
        /\ selectedSpace' = space /\ errorMessage' = "null"
        /\ UNCHANGED <<spaceDataLoading, cachedSpaces, inFlight>>
        /\ UNCHANGED notStore

\* selectSpace(space), cache miss: spaceDataLoading = true, getTree and
\* getPages are requested
SelectFetch ==
    \E space \in StoreSpaces :
        /\ space \notin cachedSpaces /\ Pending < MaxFetches
        /\ selectedSpace' = space /\ errorMessage' = "null"
        /\ spaceDataLoading' = TRUE
        /\ inFlight' = [inFlight EXCEPT ![space] = @ + 1]
        /\ UNCHANGED cachedSpaces
        /\ UNCHANGED notStore

\* refreshCurrentSpace(): the entries of the selected Space are deleted,
\* spaceDataLoading = true, getTree and getPages are requested with refresh
RefreshCurrentSpace ==
    /\ selectedSpace # "null" /\ Pending < MaxFetches
    /\ cachedSpaces' = cachedSpaces \ {selectedSpace}
    /\ spaceDataLoading' = TRUE
    /\ inFlight' = [inFlight EXCEPT ![selectedSpace] = @ + 1]
    /\ UNCHANGED <<selectedSpace, errorMessage>>
    /\ UNCHANGED notStore

\* Promise.all resolves: the entries of the Space of the call are set,
\* spaceDataLoading = false
FetchResolves ==
    \E space \in StoreSpaces :
        /\ inFlight[space] > 0
        /\ inFlight' = [inFlight EXCEPT ![space] = @ - 1]
        /\ cachedSpaces' = cachedSpaces \cup {space}
        /\ spaceDataLoading' = FALSE
        /\ UNCHANGED <<selectedSpace, errorMessage>>
        /\ UNCHANGED notStore

\* Promise.all rejects: catch sets error and spaceDataLoading = false
FetchRejects ==
    \E space \in StoreSpaces :
        /\ inFlight[space] > 0
        /\ inFlight' = [inFlight EXCEPT ![space] = @ - 1]
        /\ errorMessage' = "Failed"
        /\ spaceDataLoading' = FALSE
        /\ UNCHANGED <<selectedSpace, cachedSpaces>>
        /\ UNCHANGED notStore

StoreNext ==
    \/ SelectCached \/ SelectFetch \/ RefreshCurrentSpace \/ FetchResolves
    \/ FetchRejects

----------------------------------------------------------------------------
(* Specifications *)

\* buildTree on every page list of up to MaxPages pages
TreeInit ==
    /\ \E n \in 0..MaxPages : pages \in PageLists(n)
    /\ tpc = "map"
    /\ pageMap = <<>>
    /\ rootNodes = <<>>
    /\ children = <<>>
    /\ ti = 1
    /\ totalPages = 0
    \* the other components are idle
    /\ sArg = Undefined /\ result = <<>> /\ sanOut = <<>> /\ spc = "idle"
    /\ sCall = 0 /\ out1 = <<>>
    /\ htmlContent = <<>> /\ codeBlocks = <<>> /\ withPlaceholders = <<>>
    /\ markdown = <<>> /\ fpc = "idle" /\ fi = 0
    /\ jobPages = <<>> /\ formats = NoFormats /\ jpc = "idle" /\ pidx = 0
    /\ pagesProcessed = 0 /\ htmlCount = 0 /\ mdCount = 0 /\ pdfCount = 0
    /\ attachmentsDownloaded = 0 /\ attachmentsFailed = 0
    /\ browser = "null" /\ launches = 0 /\ closes = 0 /\ surfaces = {}
    /\ pending = "none" /\ status = "idle" /\ thrown = {} /\ written = {}
    /\ listFailures = 0 /\ itemFailures = 0 /\ itemDownloads = 0
    /\ lpc = "idle" /\ stats = NoStats /\ px = 0 /\ ancestors = <<>>
    /\ currentId = Null /\ pagePath = <<>>
    /\ req = NoRequest /\ rpc = "idle" /\ listings = 0 /\ dirsMade = 0
    /\ sessionsMade = 0 /\ tempDir = "none" /\ zipFile = "none" /\ response = 0
    /\ now = 0 /\ upstream = {} /\ pagesCache = <<>> /\ gets = NoGet
    /\ bulk = NoBulk /\ deleted = {} /\ lastResponse = NoResponse
    /\ vfMode = "none" /\ vfPath = <<>> /\ processed = <<>> /\ vi = 0 /\ vpc = "idle"
    /\ downloads = <<>> /\ msNow = 0 /\ tmpDirs = <<>> /\ zipPaths = <<>> /\ inodes = <<>>
    /\ selectedSpace = "null" /\ spaceDataLoading = FALSE /\ cachedSpaces = {}
    /\ inFlight = <<>> /\ errorMessage = "null"

SpecTree == TreeInit /\ [][TreeNext]_vars

\* safeFilename on every input of SanInputs, then on its own output
SanInit ==
    /\ sArg \in SanInputs
    /\ result = <<>> /\ sanOut = <<>> /\ spc = "trim" /\ sCall = 1 /\ out1 = <<>>
    \* the other components are idle
    /\ pages = <<>> /\ tpc = "idle" /\ pageMap = <<>> /\ rootNodes = <<>>
    /\ children = <<>> /\ ti = 0 /\ totalPages = 0
    /\ htmlContent = <<>> /\ codeBlocks = <<>> /\ withPlaceholders = <<>>
    /\ markdown = <<>> /\ fpc = "idle" /\ fi = 0
    /\ jobPages = <<>> /\ formats = NoFormats /\ jpc = "idle" /\ pidx = 0
    /\ pagesProcessed = 0 /\ htmlCount = 0 /\ mdCount = 0 /\ pdfCount = 0
    /\ attachmentsDownloaded = 0 /\ attachmentsFailed = 0
    /\ browser = "null" /\ launches = 0 /\ closes = 0 /\ surfaces = {}
    /\ pending = "none" /\ status = "idle" /\ thrown = {} /\ written = {}
    /\ listFailures = 0 /\ itemFailures = 0 /\ itemDownloads = 0
    /\ lpc = "idle" /\ stats = NoStats /\ px = 0 /\ ancestors = <<>>
    /\ currentId = Null /\ pagePath = <<>>
    /\ req = NoRequest /\ rpc = "idle" /\ listings = 0 /\ dirsMade = 0
    /\ sessionsMade = 0 /\ tempDir = "none" /\ zipFile = "none" /\ response = 0
    /\ now = 0 /\ upstream = {} /\ pagesCache = <<>> /\ gets = NoGet
    /\ bulk = NoBulk /\ deleted = {} /\ lastResponse = NoResponse
    /\ vfMode = "none" /\ vfPath = <<>> /\ processed = <<>> /\ vi = 0 /\ vpc = "idle"
    /\ downloads = <<>> /\ msNow = 0 /\ tmpDirs = <<>> /\ zipPaths = <<>> /\ inodes = <<>>
    /\ selectedSpace = "null" /\ spaceDataLoading = FALSE /\ cachedSpaces = {}
    /\ inFlight = <<>> /\ errorMessage = "null"

SpecSan == SanInit /\ [][SanNext]_vars

\* confluenceCodeMacroToFence on every body of HtmlContents
FenceInit ==
    /\ htmlContent \in HtmlContents
    /\ codeBlocks = <<>> /\ withPlaceholders = <<>> /\ markdown = <<>>
    /\ fpc = "extract" /\ fi = 1
    \* the other components are idle
    /\ pages = <<>> /\ tpc = "idle" /\ pageMap = <<>> /\ rootNodes = <<>>
    /\ children = <<>> /\ ti = 0 /\ totalPages = 0
    /\ sArg = Undefined /\ result = <<>> /\ sanOut = <<>> /\ spc = "idle"
    /\ sCall = 0 /\ out1 = <<>>
    /\ jobPages = <<>> /\ formats = NoFormats /\ jpc = "idle" /\ pidx = 0
    /\ pagesProcessed = 0 /\ htmlCount = 0 /\ mdCount = 0 /\ pdfCount = 0
    /\ attachmentsDownloaded = 0 /\ attachmentsFailed = 0
    /\ browser = "null" /\ launches = 0 /\ closes = 0 /\ surfaces = {}
    /\ pending = "none" /\ status = "idle" /\ thrown = {} /\ written = {}
    /\ listFailures = 0 /\ itemFailures = 0 /\ itemDownloads = 0
    /\ lpc = "idle" /\ stats = NoStats /\ px = 0 /\ ancestors = <<>>
    /\ currentId = Null /\ pagePath = <<>>
    /\ req = NoRequest /\ rpc = "idle" /\ listings = 0 /\ dirsMade = 0
    /\ sessionsMade = 0 /\ tempDir = "none" /\ zipFile = "none" /\ response = 0
    /\ now = 0 /\ upstream = {} /\ pagesCache = <<>> /\ gets = NoGet
    /\ bulk = NoBulk /\ deleted = {} /\ lastResponse = NoResponse
    /\ vfMode = "none" /\ vfPath = <<>> /\ processed = <<>> /\ vi = 0 /\ vpc = "idle"
    /\ downloads = <<>> /\ msNow = 0 /\ tmpDirs = <<>> /\ zipPaths = <<>> /\ inodes = <<>>
    /\ selectedSpace = "null" /\ spaceDataLoading = FALSE /\ cachedSpaces = {}
    /\ inFlight = <<>> /\ errorMessage = "null"

SpecFence == FenceInit /\ [][FenceNext]_vars

\* convertPages on every page list of up to MaxJobPages pages and every
\* selection of formats
JobInit ==
    /\ \E n \in 0..MaxJobPages : jobPages \in JobPageLists(n)
    /\ formats \in FormatSets
    /\ jpc = "start" /\ pidx = 0
    /\ pagesProcessed = 0 /\ htmlCount = 0 /\ mdCount = 0 /\ pdfCount = 0
    /\ attachmentsDownloaded = 0 /\ attachmentsFailed = 0
    /\ browser = "null" /\ launches = 0 /\ closes = 0 /\ surfaces = {}
    /\ pending = "none" /\ status = "running" /\ thrown = {} /\ written = {}
    /\ listFailures = 0 /\ itemFailures = 0 /\ itemDownloads = 0
    \* the other components are idle
    /\ pages = <<>> /\ tpc = "idle" /\ pageMap = <<>> /\ rootNodes = <<>>
    /\ children = <<>> /\ ti = 0 /\ totalPages = 0
    /\ sArg = Undefined /\ result = <<>> /\ sanOut = <<>> /\ spc = "idle"
    /\ sCall = 0 /\ out1 = <<>>
    /\ htmlContent = <<>> /\ codeBlocks = <<>> /\ withPlaceholders = <<>>
    /\ markdown = <<>> /\ fpc = "idle" /\ fi = 0
    /\ lpc = "idle" /\ stats = NoStats /\ px = 0 /\ ancestors = <<>>
    /\ currentId = Null /\ pagePath = <<>>
    /\ req = NoRequest /\ rpc = "idle" /\ listings = 0 /\ dirsMade = 0
    /\ sessionsMade = 0 /\ tempDir = "none" /\ zipFile = "none" /\ response = 0
    /\ now = 0 /\ upstream = {} /\ pagesCache = <<>> /\ gets = NoGet
    /\ bulk = NoBulk /\ deleted = {} /\ lastResponse = NoResponse
    /\ vfMode = "none" /\ vfPath = <<>> /\ processed = <<>> /\ vi = 0 /\ vpc = "idle"
    /\ downloads = <<>> /\ msNow = 0 /\ tmpDirs = <<>> /\ zipPaths = <<>> /\ inodes = <<>>
    /\ selectedSpace = "null" /\ spaceDataLoading = FALSE /\ cachedSpaces = {}
    /\ inFlight = <<>> /\ errorMessage = "null"

SpecJob == JobInit /\ [][JobNext]_vars

\* the page lists of the statistics and the output paths: as PageLists, the
\* titles alternate
ForestPageLists(n) ==
    {[i \in 1..n |-> [id |-> IdList[i], title |-> IF i % 2 = 1 THEN "a" ELSE "B",
                      parentId |-> f[i].parentId, parentType |-> f[i].parentType]] :
        f \in [1..n -> [parentId : PageIds(n) \cup {Null, MissingId},
                        parentType : ParentTypes]]}

\* buildTree, then getTreeStats and the output path of every page
ForestInit ==
    /\ \E n \in 0..MaxPages : pages \in ForestPageLists(n)
    /\ tpc = "map" /\ pageMap = <<>> /\ rootNodes = <<>> /\ children = <<>>
    /\ ti = 1 /\ totalPages = 0
    /\ lpc = "stats" /\ stats = NoStats /\ px = 0 /\ ancestors = <<>>
    /\ currentId = Null /\ pagePath = <<>>
    \* the other components are idle
    /\ sArg = Undefined /\ result = <<>> /\ sanOut = <<>> /\ spc = "idle"
    /\ sCall = 0 /\ out1 = <<>>
    /\ htmlContent = <<>> /\ codeBlocks = <<>> /\ withPlaceholders = <<>>
    /\ markdown = <<>> /\ fpc = "idle" /\ fi = 0
    /\ jobPages = <<>> /\ formats = NoFormats /\ jpc = "idle" /\ pidx = 0
    /\ pagesProcessed = 0 /\ htmlCount = 0 /\ mdCount = 0 /\ pdfCount = 0
    /\ attachmentsDownloaded = 0 /\ attachmentsFailed = 0
    /\ browser = "null" /\ launches = 0 /\ closes = 0 /\ surfaces = {}
    /\ pending = "none" /\ status = "idle" /\ thrown = {} /\ written = {}
    /\ listFailures = 0 /\ itemFailures = 0 /\ itemDownloads = 0
    /\ req = NoRequest /\ rpc = "idle" /\ listings = 0 /\ dirsMade = 0
    /\ sessionsMade = 0 /\ tempDir = "none" /\ zipFile = "none" /\ response = 0
    /\ now = 0 /\ upstream = {} /\ pagesCache = <<>> /\ gets = NoGet
    /\ bulk = NoBulk /\ deleted = {} /\ lastResponse = NoResponse
    /\ vfMode = "none" /\ vfPath = <<>> /\ processed = <<>> /\ vi = 0 /\ vpc = "idle"
    /\ downloads = <<>> /\ msNow = 0 /\ tmpDirs = <<>> /\ zipPaths = <<>> /\ inodes = <<>>
    /\ selectedSpace = "null" /\ spaceDataLoading = FALSE /\ cachedSpaces = {}
    /\ inFlight = <<>> /\ errorMessage = "null"

SpecForest == ForestInit /\ [][ForestNext]_vars

\* the three functions are synchronous: once called they run to their end
\* without giving up the thread, so a step that can be taken is taken
FairSpecForest == ForestInit /\ [][ForestNext]_vars /\ WF_vars(ForestNext)

\* one request to POST /api/backup or POST /api/backup/download
RouteInit ==
    /\ req \in BackupRequests \cup DownloadRequests
    /\ rpc = "validate" /\ listings = 0 /\ dirsMade = 0 /\ sessionsMade = 0
    /\ tempDir = "none" /\ zipFile = "none" /\ response = 0
    \* the other components are idle
    /\ pages = <<>> /\ tpc = "idle" /\ pageMap = <<>> /\ rootNodes = <<>>
    /\ children = <<>> /\ ti = 0 /\ totalPages = 0
    /\ sArg = Undefined /\ result = <<>> /\ sanOut = <<>> /\ spc = "idle"
    /\ sCall = 0 /\ out1 = <<>>
    /\ htmlContent = <<>> /\ codeBlocks = <<>> /\ withPlaceholders = <<>>
    /\ markdown = <<>> /\ fpc = "idle" /\ fi = 0
    /\ jobPages = <<>> /\ formats = NoFormats /\ jpc = "idle" /\ pidx = 0
    /\ pagesProcessed = 0 /\ htmlCount = 0 /\ mdCount = 0 /\ pdfCount = 0
    /\ attachmentsDownloaded = 0 /\ attachmentsFailed = 0
    /\ browser = "null" /\ launches = 0 /\ closes = 0 /\ surfaces = {}
    /\ pending = "none" /\ status = "idle" /\ thrown = {} /\ written = {}
    /\ listFailures = 0 /\ itemFailures = 0 /\ itemDownloads = 0
    /\ lpc = "idle" /\ stats = NoStats /\ px = 0 /\ ancestors = <<>>
    /\ currentId = Null /\ pagePath = <<>>
    /\ now = 0 /\ upstream = {} /\ pagesCache = <<>> /\ gets = NoGet
    /\ bulk = NoBulk /\ deleted = {} /\ lastResponse = NoResponse
    /\ vfMode = "none" /\ vfPath = <<>> /\ processed = <<>> /\ vi = 0 /\ vpc = "idle"
    /\ downloads = <<>> /\ msNow = 0 /\ tmpDirs = <<>> /\ zipPaths = <<>> /\ inodes = <<>>
    /\ selectedSpace = "null" /\ spaceDataLoading = FALSE /\ cachedSpaces = {}
    /\ inFlight = <<>> /\ errorMessage = "null"

SpecRoute == RouteInit /\ [][RouteNext]_vars

\* the server after start: an empty cache, every page exists
CacheInit ==
    /\ now = 0 /\ upstream = AllPages
    /\ pagesCache = [space \in Spaces |-> NoEntry]
    /\ gets = NoGet
    /\ bulk = NoBulk /\ deleted = {} /\ lastResponse = NoResponse
    \* the other components are idle
    /\ pages = <<>> /\ tpc = "idle" /\ pageMap = <<>> /\ rootNodes = <<>>
    /\ children = <<>> /\ ti = 0 /\ totalPages = 0
    /\ sArg = Undefined /\ result = <<>> /\ sanOut = <<>> /\ spc = "idle"
    /\ sCall = 0 /\ out1 = <<>>
    /\ htmlContent = <<>> /\ codeBlocks = <<>> /\ withPlaceholders = <<>>
    /\ markdown = <<>> /\ fpc = "idle" /\ fi = 0
    /\ jobPages = <<>> /\ formats = NoFormats /\ jpc = "idle" /\ pidx = 0
    /\ pagesProcessed = 0 /\ htmlCount = 0 /\ mdCount = 0 /\ pdfCount = 0
    /\ attachmentsDownloaded = 0 /\ attachmentsFailed = 0
    /\ browser = "null" /\ launches = 0 /\ closes = 0 /\ surfaces = {}
    /\ pending = "none" /\ status = "idle" /\ thrown = {} /\ written = {}
    /\ listFailures = 0 /\ itemFailures = 0 /\ itemDownloads = 0
    /\ lpc = "idle" /\ stats = NoStats /\ px = 0 /\ ancestors = <<>>
    /\ currentId = Null /\ pagePath = <<>>
    /\ req = NoRequest /\ rpc = "idle" /\ listings = 0 /\ dirsMade = 0
    /\ sessionsMade = 0 /\ tempDir = "none" /\ zipFile = "none" /\ response = 0
    /\ vfMode = "none" /\ vfPath = <<>> /\ processed = <<>> /\ vi = 0 /\ vpc = "idle"
    /\ downloads = <<>> /\ msNow = 0 /\ tmpDirs = <<>> /\ zipPaths = <<>> /\ inodes = <<>>
    /\ selectedSpace = "null" /\ spaceDataLoading = FALSE /\ cachedSpaces = {}
    /\ inFlight = <<>> /\ errorMessage = "null"

SpecCache == CacheInit /\ [][CacheNext]_vars

\* processConfluenceHtml(html, './attachments') and
\* processConfluenceHtmlForPdf(html, absolute path) on every body
ViewFileInit ==
    /\ \/ vfMode = "html" /\ vfPath = RelativeAttachments
       \/ vfMode = "pdf" /\ vfPath = AbsoluteAttachments
    /\ processed \in ViewFileBodies
    /\ vi = 0 /\ vpc = "before"
    \* the other components are idle
    /\ pages = <<>> /\ tpc = "idle" /\ pageMap = <<>> /\ rootNodes = <<>>
    /\ children = <<>> /\ ti = 0 /\ totalPages = 0
    /\ sArg = Undefined /\ result = <<>> /\ sanOut = <<>> /\ spc = "idle"
    /\ sCall = 0 /\ out1 = <<>>
    /\ htmlContent = <<>> /\ codeBlocks = <<>> /\ withPlaceholders = <<>>
    /\ markdown = <<>> /\ fpc = "idle" /\ fi = 0
    /\ jobPages = <<>> /\ formats = NoFormats /\ jpc = "idle" /\ pidx = 0
    /\ pagesProcessed = 0 /\ htmlCount = 0 /\ mdCount = 0 /\ pdfCount = 0
    /\ attachmentsDownloaded = 0 /\ attachmentsFailed = 0
    /\ browser = "null" /\ launches = 0 /\ closes = 0 /\ surfaces = {}
    /\ pending = "none" /\ status = "idle" /\ thrown = {} /\ written = {}
    /\ listFailures = 0 /\ itemFailures = 0 /\ itemDownloads = 0
    /\ lpc = "idle" /\ stats = NoStats /\ px = 0 /\ ancestors = <<>>
    /\ currentId = Null /\ pagePath = <<>>
    /\ req = NoRequest /\ rpc = "idle" /\ listings = 0 /\ dirsMade = 0
    /\ sessionsMade = 0 /\ tempDir = "none" /\ zipFile = "none" /\ response = 0
    /\ now = 0 /\ upstream = {} /\ pagesCache = <<>> /\ gets = NoGet
    /\ bulk = NoBulk /\ deleted = {} /\ lastResponse = NoResponse
    /\ downloads = <<>> /\ msNow = 0 /\ tmpDirs = <<>> /\ zipPaths = <<>> /\ inodes = <<>>
    /\ selectedSpace = "null" /\ spaceDataLoading = FALSE /\ cachedSpaces = {}
    /\ inFlight = <<>> /\ errorMessage = "null"

SpecViewFile == ViewFileInit /\ [][ViewFileNext]_vars

\* MaxDownloads requests that have passed the early returns, for any Spaces
OverlapInit ==
    /\ downloads \in [Requests -> {NewDownload(s) : s \in DlSpaces}]
    /\ msNow = 0
    /\ tmpDirs = [d \in DirNames |-> NoDirEntry]
    /\ zipPaths = [z \in ZipNames |-> 0]
    /\ inodes = [i \in Requests |-> NoData]
    \* the other components are idle
    /\ pages = <<>> /\ tpc = "idle" /\ pageMap = <<>> /\ rootNodes = <<>>
    /\ children = <<>> /\ ti = 0 /\ totalPages = 0
    /\ sArg = Undefined /\ result = <<>> /\ sanOut = <<>> /\ spc = "idle"
    /\ sCall = 0 /\ out1 = <<>>
    /\ htmlContent = <<>> /\ codeBlocks = <<>> /\ withPlaceholders = <<>>
    /\ markdown = <<>> /\ fpc = "idle" /\ fi = 0
    /\ jobPages = <<>> /\ formats = NoFormats /\ jpc = "idle" /\ pidx = 0
    /\ pagesProcessed = 0 /\ htmlCount = 0 /\ mdCount = 0 /\ pdfCount = 0
    /\ attachmentsDownloaded = 0 /\ attachmentsFailed = 0
    /\ browser = "null" /\ launches = 0 /\ closes = 0 /\ surfaces = {}
    /\ pending = "none" /\ status = "idle" /\ thrown = {} /\ written = {}
    /\ listFailures = 0 /\ itemFailures = 0 /\ itemDownloads = 0
    /\ lpc = "idle" /\ stats = NoStats /\ px = 0 /\ ancestors = <<>>
    /\ currentId = Null /\ pagePath = <<>>
    /\ req = NoRequest /\ rpc = "idle" /\ listings = 0 /\ dirsMade = 0
    /\ sessionsMade = 0 /\ tempDir = "none" /\ zipFile = "none" /\ response = 0
    /\ now = 0 /\ upstream = {} /\ pagesCache = <<>> /\ gets = NoGet
    /\ bulk = NoBulk /\ deleted = {} /\ lastResponse = NoResponse
    /\ vfMode = "none" /\ vfPath = <<>> /\ processed = <<>> /\ vi = 0 /\ vpc = "idle"
    /\ selectedSpace = "null" /\ spaceDataLoading = FALSE /\ cachedSpaces = {}
    /\ inFlight = <<>> /\ errorMessage = "null"

SpecOverlap == OverlapInit /\ [][OverlapNext]_vars

\* the store as created: nothing selected, nothing cached, nothing requested
StoreInit ==
    /\ selectedSpace = "null" /\ spaceDataLoading = FALSE /\ cachedSpaces = {}
    /\ inFlight = [space \in StoreSpaces |-> 0] /\ errorMessage = "null"
    \* the other components are idle
    /\ pages = <<>> /\ tpc = "idle" /\ pageMap = <<>> /\ rootNodes = <<>>
    /\ children = <<>> /\ ti = 0 /\ totalPages = 0
    /\ sArg = Undefined /\ result = <<>> /\ sanOut = <<>> /\ spc = "idle"
    /\ sCall = 0 /\ out1 = <<>>
    /\ htmlContent = <<>> /\ codeBlocks = <<>> /\ withPlaceholders = <<>>
    /\ markdown = <<>> /\ fpc = "idle" /\ fi = 0
    /\ jobPages = <<>> /\ formats = NoFormats /\ jpc = "idle" /\ pidx = 0
    /\ pagesProcessed = 0 /\ htmlCount = 0 /\ mdCount = 0 /\ pdfCount = 0
    /\ attachmentsDownloaded = 0 /\ attachmentsFailed = 0
    /\ browser = "null" /\ launches = 0 /\ closes = 0 /\ surfaces = {}
    /\ pending = "none" /\ status = "idle" /\ thrown = {} /\ written = {}
    /\ listFailures = 0 /\ itemFailures = 0 /\ itemDownloads = 0
    /\ lpc = "idle" /\ stats = NoStats /\ px = 0 /\ ancestors = <<>>
    /\ currentId = Null /\ pagePath = <<>>
    /\ req = NoRequest /\ rpc = "idle" /\ listings = 0 /\ dirsMade = 0
    /\ sessionsMade = 0 /\ tempDir = "none" /\ zipFile = "none" /\ response = 0
    /\ now = 0 /\ upstream = {} /\ pagesCache = <<>> /\ gets = NoGet
    /\ bulk = NoBulk /\ deleted = {} /\ lastResponse = NoResponse
    /\ vfMode = "none" /\ vfPath = <<>> /\ processed = <<>> /\ vi = 0 /\ vpc = "idle"
    /\ downloads = <<>> /\ msNow = 0 /\ tmpDirs = <<>> /\ zipPaths = <<>> /\ inodes = <<>>

SpecStore == StoreInit /\ [][StoreNext]_vars

----------------------------------------------------------------------------
(* Properties of buildTree *)

RECURSIVE CountAll(_, _)
\* countAll: a node plus all of its descendants
CountAll(ch, id) == 1 + SumSeq([k \in 1..Len(ch[id]) |-> CountAll(ch, ch[id][k])])

ForestCount == SumSeq([k \in 1..Len(rootNodes) |-> CountAll(children, rootNodes[k])])

Occurrences(s, x) == Cardinality({k \in 1..Len(s) : s[k] = x})

\* the page a page hangs under in the forest, or Null for a root
LinkParent(ps, p) ==
    IF IsRootNode(p) \/ p.parentId \notin {q.id : q \in Range(ps)} THEN Null
    ELSE p.parentId

RECURSIVE ReachesRoot(_, _, _)
ReachesRoot(ps, id, fuel) ==
    IF LinkParent(ps, PageOf(ps, id)) = Null THEN TRUE
    ELSE IF fuel = 0 THEN FALSE
    ELSE ReachesRoot(ps, LinkParent(ps, PageOf(ps, id)), fuel - 1)

\* no cycle among the parent pointers that link a page under another page
Acyclic(ps) == \A p \in Range(ps) : ReachesRoot(ps, p.id, Len(ps))

\* C1 (as stated): for every input page set, the nodes reachable from the roots
\* of the returned forest number exactly totalPages.
C1_CountConserved == tpc = "done" => ForestCount = totalPages

\* C1 (amended): for every input page set whose parent pointers contain no
\* cycle, the nodes reachable from the roots of the returned forest number
\* exactly totalPages.
C1_CountConservedAcyclic ==
    (tpc = "done" /\ Acyclic(pages)) => ForestCount = totalPages

C1_Witness ==
    /\ tpc = "done" /\ Acyclic(pages) /\ Len(pages) = 3
    /\ \E id \in DOMAIN children : children[id] # <<>>
    /\ \E p \in Range(pages) : ~IsRootNode(p) /\ p.parentId = MissingId
    /\ ForestCount = 3

\* C2: every page with parentType "space" or parentId null is a root; every
\* other page whose parentId resolves is in that parent's children exactly once
\* and nowhere else; every page whose declared parent is absent is a root.
C2_Placement ==
    tpc = "done" =>
        \A p \in Range(pages) :
            /\ IsRootNode(p) => Occurrences(rootNodes, p.id) = 1
            /\ (~IsRootNode(p) /\ p.parentId \in DOMAIN children) =>
                    /\ Occurrences(children[p.parentId], p.id) = 1
                    /\ \A q \in DOMAIN children \ {p.parentId} :
                           Occurrences(children[q], p.id) = 0
                    /\ Occurrences(rootNodes, p.id) = 0
            /\ (p.parentId # Null /\ p.parentId \notin DOMAIN children) =>
                    /\ Occurrences(rootNodes, p.id) = 1
                    /\ \A q \in DOMAIN children : Occurrences(children[q], p.id) = 0

C2_Witness ==
    /\ tpc = "done" /\ Len(pages) = 3
    /\ \E p \in Range(pages) : IsRootNode(p) /\ p.id \in Range(rootNodes)
    /\ \E p \in Range(pages) :
           ~IsRootNode(p) /\ p.parentId \in DOMAIN children
           /\ p.id \in Range(children[p.parentId])
    /\ \E p \in Range(pages) :
           ~IsRootNode(p) /\ p.parentId = MissingId /\ p.id \in Range(rootNodes)

NonDecreasing(ps, nodes) ==
    \A k \in 1..(Len(nodes) - 1) :
        CollationKey(TitleOf(ps, nodes[k])) <= CollationKey(TitleOf(ps, nodes[k + 1]))

\* C3: in the returned forest the root list and the children list of every
\* node are in non-decreasing order of title under locale comparison.
C3_SiblingsSorted ==
    tpc = "done" =>
        /\ NonDecreasing(pages, rootNodes)
        /\ \A id \in Visited(rootNodes, children) : NonDecreasing(pages, children[id])

C3_Witness ==
    /\ tpc = "done"
    /\ \E id \in Visited(rootNodes, children) :
           /\ Len(children[id]) = 2
           /\ children[id][1] = "3" /\ children[id][2] = "2"
           /\ TitleOf(pages, "3") = "a" /\ TitleOf(pages, "2") = "B"

----------------------------------------------------------------------------
(* Properties of the output paths and of getTreeStats *)

\* the node whose children array holds the node, or Null
ForestParent(id) ==
    IF \E q \in DOMAIN children : id \in Range(children[q])
    THEN CHOOSE q \in DOMAIN children : id \in Range(children[q])
    ELSE Null

RECURSIVE ForestChain(_, _)
\* the ids from the root of the node down to the node, <<>> for a node that
\* hangs under no root
ForestChain(id, fuel) ==
    IF id \in Range(rootNodes) THEN <<id>>
    ELSE IF fuel = 0 \/ ForestParent(id) = Null THEN <<>>
    ELSE LET up == ForestChain(ForestParent(id), fuel - 1)
         IN  IF up = <<>> THEN <<>> ELSE Append(up, id)

\* the level of the page in the forest: 1 for a root
ForestLevel(id) == Len(ForestChain(id, Len(pages)))

ExpectedPath(id) ==
    LET chain == ForestChain(id, Len(pages))
    IN  <<"pages">> \o
        [k \in 1..Len(chain) |->
            <<chain[k], "_">> \o
            safeFilename(Str(TitleChars(PageOf(pages, chain[k]).title)))]

\* a parentId that names a page of the list comes with parentType page, and
\* the parent pointers have no cycle
ParentsWellFormed(ps) ==
    /\ \A p \in Range(ps) : HasPage(ps, p.parentId) => p.parentType = "page"
    /\ Acyclic(ps)

PathMatchesForest ==
    /\ lpc = "chain" => Len(ancestors) <= Len(pages)
    /\ lpc = "ensured" =>
           /\ ForestLevel(pages[px].id) >= 1
           /\ pagePath = ExpectedPath(pages[px].id)
           /\ Len(pagePath) - 1 = ForestLevel(pages[px].id)

RECURSIVE EdgesBelow(_, _)
\* the number of edges of the longest path from the node down to a leaf
EdgesBelow(ch, id) ==
    IF Len(ch[id]) = 0 THEN 0
    ELSE 1 + MaxSeq([k \in 1..Len(ch[id]) |-> EdgesBelow(ch, ch[id][k])])

\* the largest number of edges on a path from a root to a leaf
MaxEdges ==
    IF rootNodes = <<>> THEN 0
    ELSE MaxSeq([k \in 1..Len(rootNodes) |-> EdgesBelow(children, rootNodes[k])])

StatsReturned == lpc \notin {"idle", "stats"}

\* C17 (as stated): maxDepth is the largest number of edges on a path from a
\* root to a leaf.
C17_MaxDepthIsEdges == StatsReturned => stats.maxDepth = MaxEdges

\* C17 (amended): maxDepth is the largest number of nodes on a path from a
\* root to a leaf (roots are at depth 1), one more than the number of edges;
\* it is 0 for the empty forest.
C17_MaxDepthIsLevels ==
    StatsReturned =>
        stats.maxDepth = IF rootNodes = <<>> THEN 0 ELSE MaxEdges + 1

\* statistics of a forest with a path of two edges
C17_Witness == StatsReturned /\ MaxEdges = 2 /\ stats.maxDepth = 3

\* Scenario A: one space-level page and one page under it
ScenarioA ==
    /\ Len(pages) = 2
    /\ pages[1].parentType = "space" /\ pages[1].parentId = Null
    /\ pages[2].parentType = "page" /\ pages[2].parentId = pages[1].id

\* C18: for one space-level page and one page whose parent is that page, the
\* forest has exactly one root with exactly one child, maxDepth is 2 and
\* rootPages is 1.
C18_ScenarioA ==
    (ScenarioA /\ StatsReturned) =>
        /\ rootNodes = <<pages[1].id>>
        /\ children[pages[1].id] = <<pages[2].id>>
        /\ children[pages[2].id] = <<>>
        /\ stats.maxDepth = 2 /\ stats.rootPages = 1 /\ stats.totalPages = 2

C18_Witness == ScenarioA /\ StatsReturned /\ stats.maxDepth = 2 /\ stats.rootPages = 1

----------------------------------------------------------------------------
(* Properties of safeFilename *)

\* C4: the sanitizer is idempotent: sanitize(sanitize(x)) = sanitize(x).
C4_Idempotent == (spc = "done" /\ sCall = 2) => sanOut = out1

\* C5: for every input the sanitizer returns a string of length 1..120 with no
\* forbidden character and no whitespace, and "untitled" when nothing is left.
C5_SafeOutput ==
    spc = "done" =>
        /\ Len(sanOut) >= 1 /\ Len(sanOut) <= 120
        /\ \A k \in 1..Len(sanOut) : sanOut[k] \notin ForbiddenChars \cup WhitespaceChars
        /\ result = <<>> => sanOut = Untitled

C5_Witness ==
    /\ spc = "done" /\ sCall = 1
    /\ Len(sArg.chars) > 120 /\ Len(sanOut) = 120
    /\ \E k \in 1..Len(sArg.chars) : sArg.chars[k] \in ForbiddenChars

C5_WitnessUntitled ==
    /\ spc = "done" /\ sCall = 1 /\ sanOut = Untitled
    /\ sArg.defined /\ Len(sArg.chars) = 3
    /\ \A k \in 1..Len(sArg.chars) : sArg.chars[k] \in ForbiddenChars \cup WhitespaceChars

----------------------------------------------------------------------------
(* Properties of confluenceCodeMacroToFence *)

RECURSIVE SplitLines(_, _)
\* the lines of a Markdown text (cur: the line being read)
SplitLines(s, cur) ==
    IF s = <<>> THEN <<cur>>
    ELSE IF Head(s) = "\n" THEN <<cur>> \o SplitLines(Tail(s), <<>>)
         ELSE SplitLines(Tail(s), Append(cur, Head(s)))

RECURSIVE LeadingCount(_, _)
LeadingCount(line, a) ==
    IF line # <<>> /\ Head(line) = a THEN 1 + LeadingCount(Tail(line), a) ELSE 0

Indent(line) == LeadingCount(line, " ")
Unindented(line) == SubSeq(line, Indent(line) + 1, Len(line))
Ticks(line) == LeadingCount(Unindented(line), Backtick)
AfterTicks(line) == SubSeq(Unindented(line), Ticks(line) + 1, Len(Unindented(line)))

\* a line that opens a fenced code block: at most 3 blanks, at least 3
\* backticks, no backtick in the info string
OpensFence(line) ==
    /\ Indent(line) <= 3 /\ Ticks(line) >= 3
    /\ \A k \in 1..Len(AfterTicks(line)) : AfterTicks(line)[k] # Backtick

\* a line that closes a fence of n backticks: at least n backticks and blanks only
ClosesFence(line, n) ==
    /\ Indent(line) <= 3 /\ Ticks(line) >= n
    /\ \A k \in 1..Len(AfterTicks(line)) : AfterTicks(line)[k] = " "

RECURSIVE JoinLines(_)
JoinLines(ls) ==
    IF ls = <<>> THEN <<>>
    ELSE IF Len(ls) = 1 THEN Head(ls)
    ELSE Head(ls) \o <<"\n">> \o JoinLines(Tail(ls))

RECURSIVE FencedContents(_, _, _, _)
\* the contents of the fenced code blocks of a Markdown text, in order
\* (open = 0: outside a fence; otherwise the length of the opening fence)
FencedContents(ls, open, acc, out) ==
    IF ls = <<>> THEN (IF open = 0 THEN out ELSE Append(out, JoinLines(acc)))
    ELSE IF open = 0
         THEN IF OpensFence(Head(ls))
              THEN FencedContents(Tail(ls), Ticks(Head(ls)), <<>>, out)
              ELSE FencedContents(Tail(ls), 0, <<>>, out)
         ELSE IF ClosesFence(Head(ls), open)
              THEN FencedContents(Tail(ls), 0, <<>>, Append(out, JoinLines(acc)))
              ELSE FencedContents(Tail(ls), open, Append(acc, Head(ls)), out)

ExtractFenced(md) == FencedContents(SplitLines(md, <<>>), 0, <<>>, <<>>)

\* the body with only trailing-whitespace / line-ending normalization applied
Normalized(body) == TrimEnd(CrlfToLf(body))

\* C6: for any code body and language, translating the macro to a Markdown fence
\* and extracting the fenced content returns the body with only trailing
\* whitespace / line-ending normalization applied.
C6_RoundTrip ==
    fpc = "done" =>
        ExtractFenced(markdown) =
            [k \in 1..Len(htmlContent) |-> Normalized(htmlContent[k].body)]

\* the bodies for which the round trip does hold: no backtick, no "$", no
\* placeholder text
PlainBody(body) ==
    \A k \in 1..Len(body) : body[k] \in {"x", " ", "\n", "\r\n"}

C6_RoundTripPlain ==
    (fpc = "done" /\ \A k \in 1..Len(htmlContent) : PlainBody(htmlContent[k].body)) =>
        ExtractFenced(markdown) =
            [k \in 1..Len(htmlContent) |-> Normalized(htmlContent[k].body)]

----------------------------------------------------------------------------
(* Properties of convertPages *)

Finished == status \in {"returned", "threw"}

JobPageIdx == 1..Len(jobPages)

BodyPages == {p \in JobPageIdx : jobPages[p].hasBody}

PdfFailed == {p \in JobPageIdx : \E st \in PdfSteps : [page |-> p, step |-> st] \in thrown}

PdfWritten == {p \in JobPageIdx : [page |-> p, file |-> "page.pdf"] \in written}

PdfOnly == [html |-> FALSE, markdown |-> FALSE, pdf |-> TRUE]

\* C7: a job that launched the browser closes it exactly once on every way
\* out of the function, whether it returns or throws, and never more often
\* than it launched it; no finished job leaves the browser open.
C7_SessionReleasedOnce ==
    /\ launches <= 1
    /\ closes <= launches
    /\ browser = "open" => ~Finished
    /\ (Finished /\ launches = 1) => (closes = 1 /\ browser = "closed")

\* a job that threw after it had processed a page, with the browser closed once
C7_Witness ==
    /\ status = "threw" /\ pagesProcessed >= 1
    /\ launches = 1 /\ closes = 1 /\ browser = "closed"

\* C8: an exception of a PDF step is never what makes the job throw; between
\* pages the PDF count is the number of pages whose PDF was written without a
\* PDF step failing; a job that returns has tried the PDF of every page with
\* a body in the one browser it launched, and has closed that browser.
C8_PdfFailureIsolated ==
    /\ status = "threw" => \E t \in thrown : t.step \notin PdfSteps
    /\ jpc \in {"loop", "finally", "end"} =>
           pdfCount = Cardinality(PdfWritten \ PdfFailed)
    /\ (status = "returned" /\ formats.pdf) =>
           /\ BodyPages \subseteq PdfWritten \cup PdfFailed
           /\ launches = 1 /\ closes = 1 /\ browser = "closed"

\* the render of page 1 threw, page 2 was rendered afterwards, the job
\* returned a PDF count of 1 and closed the browser
C8_Witness ==
    /\ status = "returned"
    /\ [page |-> 1, step |-> "render"] \in thrown
    /\ 2 \in PdfWritten \ PdfFailed
    /\ pdfCount = Cardinality(BodyPages) - 1
    /\ closes = 1 /\ browser = "closed"

\* C9: the job never throws because one page failed in one format.
C9_LocalRecovery ==
    status # "threw"

MetaStepPassed(p) ==
    p < pidx \/ (p = pidx /\ jpc \notin {"loop", "attach", "meta"})

FormatFiles == {"page.html", "page.md", "page.pdf"}

HasFile(p, f) == [page |-> p, file |-> f] \in written

\* C12: every page the job processes has its meta.json written, with or
\* without a body; a page without a body is counted in pagesProcessed and
\* gets no page.html, page.md or page.pdf; a job that returns has written
\* the meta.json of every page and counted every page.
C12_MetaAlwaysWritten ==
    /\ \A p \in JobPageIdx : MetaStepPassed(p) => HasFile(p, "meta.json")
    /\ \A p \in JobPageIdx \ BodyPages : \A f \in FormatFiles : ~HasFile(p, f)
    /\ jpc = "loop" => pagesProcessed = pidx - 1
    /\ status = "returned" =>
           /\ pagesProcessed = Len(jobPages)
           /\ \A p \in JobPageIdx : HasFile(p, "meta.json")

\* a returned job over a page without a body and a page with one
C12_Witness ==
    /\ status = "returned" /\ pagesProcessed = Len(jobPages)
    /\ \E p \in JobPageIdx \ BodyPages : HasFile(p, "meta.json")
    /\ \E p \in BodyPages : HasFile(p, "meta.json") /\ HasFile(p, "page.html")

\* C13: a failed attachment listing or download never makes the job throw
\* and never skips the page; every such failure is counted in
\* attachmentsFailed, and the two totals are the sums over the pages.
C13_AttachmentFailuresCounted ==
    /\ \A t \in thrown : t.step # "attachments"
    /\ \A p \in JobPageIdx : MetaStepPassed(p) => HasFile(p, "meta.json")
    /\ attachmentsFailed = listFailures + itemFailures
    /\ attachmentsDownloaded = itemDownloads

----------------------------------------------------------------------------
(* Properties of the export routes *)

\* the request selects no output format: no format string, or no flag set
NoFormatSelected(r) ==
    IF r.route = "backup" THEN r.format = ""
    ELSE ~r.formats.given \/ ~(r.formats.html \/ r.formats.md \/ r.formats.pdf)

\* C14: a request that selects no output format is answered 400 before any
\* work: no page listing is requested, no directory or file is created and
\* no browser is launched.
C14_NoFormatRejected ==
    (rpc # "idle" /\ NoFormatSelected(req)) =>
        /\ listings = 0 /\ dirsMade = 0 /\ sessionsMade = 0
        /\ tempDir = "none" /\ zipFile = "none"
        /\ response \in {0, 400}
        /\ rpc = "done" => response = 400

\* a download request with a spaceId and three false flags has been rejected
C14_Witness ==
    /\ req.route = "download" /\ req.spaceId # "" /\ req.formats.given
    /\ NoFormatSelected(req) /\ ~TargetsMissing(req)
    /\ rpc = "done" /\ response = 400 /\ listings = 0

----------------------------------------------------------------------------
(* Properties of the page list cache *)

\* C15: once the server has deleted a page and no handler is in progress, a
\* GET of the pages or the tree of its Space without refresh is not answered
\* from a cached list that still holds the page.
C15_DeleteDiscardsCache ==
    (bulk.stage \in {"idle", "responded"} /\ gets.stage = "free") =>
        \A p \in deleted :
            Hit(FALSE, pagesCache[SpaceOf(p)], now) => p \notin pagesCache[SpaceOf(p)].pages

\* a GET handler answers from the cache only without refresh and with an
\* entry younger than the TTL
CacheAnswerJustified ==
    lastResponse.source = "cache" => (~lastResponse.refresh /\ lastResponse.fresh)

\* the step in which the GET handler in progress sends its answer
GetAnswers == gets.stage # "free" /\ gets'.stage = "free"

EntryReplaced ==
    pagesCache'[gets.space] =
        [present |-> TRUE, pages |-> gets.pages, timestamp |-> now]

\* C19 (as stated): a GET is answered from the cache only when an entry of the
\* Space exists, is younger than the TTL and the request has no refresh=true;
\* a request with refresh=true is never answered from the cache, it fetches
\* from upstream and it always replaces the entry.
C19_RefreshAlwaysReplaces ==
    /\ []CacheAnswerJustified
    /\ [][(GetAnswers /\ gets.refresh) => EntryReplaced]_vars

\* C19 (amended): the same, the entry being replaced whenever the fetch from
\* upstream succeeds; when the fetch fails the request is answered with an
\* error and the entry stays as it was.
C19_CacheOnlyWhenFresh ==
    /\ []CacheAnswerJustified
    /\ [][(GetAnswers /\ lastResponse'.source = "upstream") => EntryReplaced]_vars
    /\ [][(GetAnswers /\ lastResponse'.source = "error") =>
              pagesCache' = pagesCache]_vars

\* an answer from an entry one minute short of the TTL
C19_Witness ==
    /\ lastResponse.source = "cache" /\ ~lastResponse.refresh
    /\ pagesCache[lastResponse.space].present
    /\ now - pagesCache[lastResponse.space].timestamp = CACHE_TTL - 1

\* an entry that has reached the TTL is replaced by a request without refresh
C19_WitnessExpired ==
    /\ lastResponse.source = "upstream" /\ ~lastResponse.refresh
    /\ now >= CACHE_TTL /\ pagesCache[lastResponse.space].timestamp = now

----------------------------------------------------------------------------
(* Properties of the view-file macro *)

\* C16: in the document built for the PDF no view-file macro becomes a
\* clickable link (an a element with an href); in the HTML document every
\* view-file macro becomes one.
C16_PdfViewFileNotClickable ==
    vpc = "done" =>
        \A k \in 1..Len(processed) :
            /\ processed[k].kind # "view-file"
            /\ vfMode = "pdf" => processed[k].kind # "a"

----------------------------------------------------------------------------
(* Acquisition of the browser by convertPages *)

\* C20: the browser is launched only if PDF was requested, at most once, and
\* not before a page has reached its PDF step.
C20_LazyAcquire ==
    launches >= 1 =>
        /\ formats.pdf /\ launches = 1
        /\ \E p \in BodyPages :
               p < pidx \/ (p = pidx /\ jpc \in {"pdf", "pdfrender", "pdfclose", "count",
                                                 "finally", "end"})

----------------------------------------------------------------------------
(* The browser pages opened by the PDF step of convertPages *)

\* the page whose PDF step is between browser.newPage() and browserPage.close()
InPdfStep(p) == p = pidx /\ jpc \in {"pdfrender", "pdfclose"}

\* C21: a browser page opened for a page's PDF is closed by that page's own
\* PDF step, whether the render succeeds or throws: at most one browser page
\* is open, and only for the page whose PDF step is running.
C21_SurfaceClosedByOwnStep ==
    /\ Cardinality(surfaces) <= 1
    /\ \A p \in surfaces : InPdfStep(p)

----------------------------------------------------------------------------
(* The order in which convertPages processes the pages *)

\* the positions inside the body of the for loop
PageSteps == {"attach", "meta", "body", "html", "md", "pdf", "pdfrender", "pdfclose",
              "count"}

\* the last position of an iteration: the continue of a page without a body,
\* or pagesProcessed++ at the end of the loop body
LastStep == (jpc = "body" /\ ~jobPages[pidx].hasBody) \/ jpc = "count"

\* the pages a step has left a trace of: a file, an exception, a browser page
Touched(w, t, s) == {f.page : f \in w} \cup {x.page : x \in t} \cup s

\* a step of the loop body works on the page of the iteration only, and the
\* iteration moves to the next page of the list from its last step only
SequentialStep ==
    /\ Touched(written', thrown', surfaces') \ Touched(written, thrown, surfaces)
           \subseteq {pidx}
    /\ pidx' # pidx =>
           \/ pidx = 0 /\ pidx' = 1 /\ jpc = "launch"
           \/ pidx' = pidx + 1 /\ LastStep /\ jpc' = "loop"
    /\ (jpc \in PageSteps /\ jpc' \in PageSteps) => pidx' = pidx

\* C22: the pages of a job are processed one after another in input order:
\* every step of a page has finished before a step of the next page starts.
\* No page after the current one has been touched, every page before it has
\* passed all its steps, and each step keeps to the page of the iteration.
C22_PagesInSequence ==
    /\ [](/\ \A p \in Touched(written, thrown, {}) : p \in JobPageIdx /\ p <= pidx
          /\ \A p \in JobPageIdx : p < pidx => HasFile(p, "meta.json")
          /\ jpc = "loop" => pagesProcessed = pidx - 1)
    /\ [][SequentialStep]_vars

\* page 2 is being translated after page 1 was fully processed
C22_Witness ==
    /\ pidx = 2 /\ jpc = "md" /\ pagesProcessed = 1
    /\ HasFile(1, "meta.json") /\ HasFile(1, "page.html") /\ HasFile(2, "meta.json")

----------------------------------------------------------------------------
(* The placeholders of confluenceCodeMacroToFence *)

\* C23: every code macro is replaced by its own placeholder before the
\* generic conversion runs, so that the converter receives no code text, and
\* every placeholder is replaced by its own fenced block afterwards: the
\* returned Markdown is the fenced blocks, each exactly once, in the order of
\* the macros, with no placeholder left where a block belongs.
C23_PlaceholdersRestored ==
    /\ fpc \in {"restore", "done"} =>
           /\ Len(withPlaceholders) = Len(htmlContent)
           /\ \A k \in 1..Len(withPlaceholders) :
                  withPlaceholders[k].text = <<Placeholder(k - 1)>>
    /\ fpc = "done" => markdown = Flatten(codeBlocks)

----------------------------------------------------------------------------
(* The answer of POST /bulk-delete *)

NoDuplicates(seq) == Cardinality(Range(seq)) = Len(seq)

\* the ids a request may target: the ids of its body and, with
\* includeChildren, their descendants
Targets(b) ==
    Range(b.pageIds) \cup
    (IF b.includeChildren THEN UNION {Range(ChildrenOf(p)) : p \in Range(b.pageIds)}
     ELSE {})

\* C24: a bulk delete calls deletePage once for each distinct target id
\* (the ids of the body and the descendants collected, without duplicates),
\* goes on after a deletion that fails, answers with one result per id it
\* tried, and its success flag is true exactly when no deletion failed.
C24_BulkDeleteResults ==
    /\ bulk.stage \in {"deleting", "responded"} =>
           /\ NoDuplicates(bulk.allPageIds)
           /\ Range(bulk.pageIds) \subseteq Range(bulk.allPageIds)
           /\ Range(bulk.allPageIds) \subseteq Targets(bulk)
           /\ NoDuplicates(bulk.calls)
           /\ bulk.calls \o bulk.todo = bulk.allPageIds
           /\ Len(bulk.results) = Len(bulk.calls)
           /\ \A k \in 1..Len(bulk.calls) : bulk.results[k].pageId = bulk.calls[k]
    /\ bulk.stage = "responded" =>
           /\ bulk.calls = bulk.allPageIds
           /\ bulk.success <=> \A k \in 1..Len(bulk.results) : bulk.results[k].success
           /\ \A k \in 1..Len(bulk.results) :
                  bulk.results[k].success => bulk.results[k].pageId \in deleted

\* a request that named p1 twice and collected its child: the deletion of p1
\* failed, the child was deleted afterwards, the answer has two results and
\* success false
C24_Witness ==
    /\ bulk.stage = "responded" /\ bulk.pageIds = <<"p1", "p1">>
    /\ bulk.includeChildren
    /\ bulk.results = <<Result("p1", FALSE), Result("p2", TRUE)>>
    /\ ~bulk.success

\* a request whose deletions all went through
C24_WitnessSuccess ==
    /\ bulk.stage = "responded" /\ bulk.success /\ Len(bulk.results) = 2

----------------------------------------------------------------------------
(* Termination of buildTree, getTreeStats and getAncestorChain *)

RECURSIVE ParentIdsEnd(_, _, _)
\* following parentId from id ends, at null or at an id no page has, within
\* fuel steps
ParentIdsEnd(ps, id, fuel) ==
    IF id = Null \/ ~HasPage(ps, id) THEN TRUE
    ELSE IF fuel = 0 THEN FALSE
    ELSE ParentIdsEnd(ps, PageOf(ps, id).parentId, fuel - 1)

\* the parentId pointers of the page list contain no cycle
NoParentIdCycle(ps) == \A p \in Range(ps) : ParentIdsEnd(ps, p.id, Len(ps))

\* buildTree and getTreeStats have returned, and so has the ancestor chain of
\* every page
AllReturned == tpc = "done" /\ lpc = "page" /\ px > Len(pages)

\* C25: for a page list whose parentId pointers contain no cycle, buildTree,
\* getTreeStats and the ancestor chain of every page run to their end and
\* return, and an ancestor chain never has more elements than there are
\* pages.
C25_TerminatesAcyclic ==
    /\ [](NoParentIdCycle(pages) => Len(ancestors) <= Len(pages))
    /\ <>(NoParentIdCycle(pages) => AllReturned)

\* three pages in a line: everything has returned, the last chain has three
\* elements
C25_Witness ==
    /\ NoParentIdCycle(pages) /\ Len(pages) = 3 /\ AllReturned
    /\ Len(ancestors) = 3

----------------------------------------------------------------------------
(* Overlapping download requests *)

\* the request holds a temporary directory
HoldsDir(r) == downloads[r].pc \in {"convert", "zip", "zipping", "zipped", "streaming"}

\* the request writes, is about to read, or reads its ZIP file
HoldsZip(r) == downloads[r].pc \in {"zipping", "zipped", "streaming"}

\* the archive of request r alone, written by r alone
OwnArchive(r) == [exports |-> {r}, writers |-> {r}]

\* C26: overlapping download requests, two for the same Space included,
\* never share a temporary directory or a ZIP file; the archive a request
\* streams is complete and holds its own export only; the cleanup of one
\* request never removes a directory or a file another request still uses.
C26_DownloadsIsolated ==
    /\ \A r, q \in Requests :
           r # q =>
               /\ (HoldsDir(r) /\ HoldsDir(q)) => downloads[r].tempDir # downloads[q].tempDir
               /\ (HoldsZip(r) /\ HoldsZip(q)) => downloads[r].zipPath # downloads[q].zipPath
    /\ \A r \in Requests :
           /\ (downloads[r].pc = "done" /\ downloads[r].status = 200) =>
                  downloads[r].sent = OwnArchive(r)
           /\ HoldsDir(r) => tmpDirs[downloads[r].tempDir].exists
           /\ downloads[r].pc \in {"zipping", "zipped"} =>
                  zipPaths[downloads[r].zipPath] = downloads[r].wfd

\* the same for requests for different Spaces only
DistinctSpaces == \A r, q \in Requests : r # q => downloads[r].spaceId # downloads[q].spaceId

C26_IsolatedAcrossSpaces == DistinctSpaces => C26_DownloadsIsolated

----------------------------------------------------------------------------
(* The temporary files of a download request *)

\* C27: when a download request is over, on whichever path (streamed, stream
\* error, archive error, conversion error), its temporary directory and its
\* ZIP file have been deleted.
C27_TempFilesRemoved ==
    (req.route = "download" /\ rpc = "done") =>
        /\ tempDir # "exists"
        /\ zipFile # "exists"

----------------------------------------------------------------------------
(* The counts convertPages returns *)

\* C28: in the result a job returns, the HTML, Markdown and PDF counts are
\* each at most pagesProcessed, pagesProcessed is at most the number of input
\* pages, and the count of a format that was not requested is 0.
C28_CountsBounded ==
    status = "returned" =>
        /\ htmlCount <= pagesProcessed /\ mdCount <= pagesProcessed
        /\ pdfCount <= pagesProcessed
        /\ pagesProcessed <= Len(jobPages)
        /\ ~formats.html => htmlCount = 0
        /\ ~formats.markdown => mdCount = 0
        /\ ~formats.pdf => pdfCount = 0

\* a job for HTML and PDF over a page with a body and a page without one has
\* returned: the counts of the requested formats are below pagesProcessed
C28_Witness ==
    /\ status = "returned" /\ formats.html /\ ~formats.markdown /\ formats.pdf
    /\ pagesProcessed = 2 /\ htmlCount = 1 /\ pdfCount = 1 /\ mdCount = 0

----------------------------------------------------------------------------
(* The output directories of the pages of a job *)

RECURSIVE ChainOf(_, _, _)
\* the array getAncestorChain returns for a page whose chain ends
ChainOf(ps, id, fuel) ==
    IF id = Null \/ ~HasPage(ps, id) \/ fuel = 0 THEN <<>>
    ELSE Append(ChainOf(ps, ParentIdOf(ps, id), fuel - 1),
                [id |-> PageOf(ps, id).id, title |-> PageOf(ps, id).title])

\* the folders buildPageOutputPath joins for page k of the list
PathOf(ps, k) ==
    <<"pages">> \o [j \in 1..Len(ChainOf(ps, ps[k].id, Len(ps))) |->
                       FolderName(ChainOf(ps, ps[k].id, Len(ps))[j])]

\* the pages whose output path can be built: their chain of parentIds ends
PathBuilt(ps) == {k \in 1..Len(ps) : ParentIdsEnd(ps, ps[k].id, Len(ps))}

\* C29: two pages of a job with distinct ids get distinct output
\* directories: the directory built for a page is the directory of no other
\* page of the list, so the files of one page are not overwritten by another.
C29_DistinctOutputDirs ==
    lpc = "ensured" =>
        /\ pagePath = PathOf(pages, px)
        /\ \A k \in PathBuilt(pages) \ {px} : PathOf(pages, k) # pagePath

\* the directory of the third page, which has the title of the first and is
\* a root like it
C29_Witness ==
    /\ lpc = "ensured" /\ px = 3
    /\ pages[1].title = pages[3].title
    /\ Len(pagePath) = 2 /\ Len(PathOf(pages, 1)) = 2

----------------------------------------------------------------------------
(* The loading flag of the client store *)

\* C30: under any interleaving of selectSpace and refreshCurrentSpace with
\* their responses, spaceDataLoading is true while a fetch for the selected
\* Space is in flight, and false once no fetch is in flight.
C30_LoadingTracksFetch ==
    /\ (selectedSpace # "null" /\ inFlight[selectedSpace] > 0) => spaceDataLoading
    /\ Pending = 0 => ~spaceDataLoading

\* the second half alone
LoadingFalseWhenIdle == Pending = 0 => ~spaceDataLoading

====
